---------------------------- MODULE Spec2Model ----------------------------
(***************************************************************************)
(* A model of busybox's mini tar (src/tar.c): the octal field codec        *)
(* (putOctal / getOctal), the selection filter (wantFileName), the         *)
(* archive writer (writeTarFile, saveFile, saveRegularFile, saveDirectory, *)
(* writeHeader, writeTarBlock) and the archive reader (readTarFile,        *)
(* readHeader, readData).                                                  *)
(*                                                                         *)
(* Bytes are the integers 0..255, C strings are sequences of bytes without *)
(* their terminating NUL, and a tar block is a sequence of TAR_BLOCK_SIZE  *)
(* bytes.  `long' is taken to be 64 bits wide; the values the model draws  *)
(* stay below 2^31 in magnitude.                                           *)
(***************************************************************************)
EXTENDS Integers, Sequences, FiniteSets, TLC

VARIABLES
    pc,             \* where the program is
    \* ---- putOctal / getOctal exercised on one field ----
    octLen,         \* len: the width of the field
    octValue,       \* value: the long handed to putOctal
    octField,       \* the len bytes of the field (cp[0..len-1])
    octRet,         \* putOctal's return value, once pc has left "put"
    octBefore,      \* the field as it was before putOctal ran
    octGot,         \* what getOctal returned for the field, once pc = "done"
    \* ---- wantFileName exercised on one name and one table ----
    wfName,         \* fileName
    wfTable,        \* fileTable (fileCount = Len(wfTable))
    wfRet,          \* wantFileName's return value, once pc = "done"
    \* ---- tar_main: the static data of tar.c ----
    listFlag, extractFlag, createFlag, tostdoutFlag,
    inHeader, badHeader, errorFlag, skipFileFlag, warnedRoot, eofFlag,
    dataCc, outFd, outName,
    mode, uid, gid, mtime,
    tarName, tarFd, tarDev, tarInode,
    argv,           \* the names left on the command line (argc = Len(argv))
    \* ---- readTarFile's locals ----
    buf,            \* char buf[BUF_SIZE]
    cpOff,          \* cp - buf
    inCc,
    nTarReads,      \* the fullRead calls on the archive so far
    \* ---- the writer's loops ----
    frames,         \* the loops in progress: writeTarFile's, then one per saveDirectory
    \* ---- the world outside ----
    srcFs,          \* the files to archive: name -> what stat, open, read, readdir give
    tarFile,        \* the bytes of the archive
    tarPos,         \* how many of them tarFd has read
    tarEnv,         \* what goes wrong with the archive: open, fstat, the n-th write
    nTarWrites,     \* the writes to the archive so far
    srcOpen,        \* the source files and directories open now
    outFs,          \* the extracted files: name -> kind, permissions, data, ...
    outEnv,         \* what goes wrong while extracting
    openFds,        \* the descriptors open now
    closedFds,      \* every descriptor passed to close, in order
    fdFile,         \* the name of the file that outFd was opened on
    nOutWrites,     \* the writes of extracted data so far
    stdout,         \* what was printed or written to standard output, in order
    stderr,         \* the diagnostics, in order
    exitCode,       \* the argument of exit, -1 before
    thenRead,       \* the run that followed a create: "x", "t" or "none"
    hist            \* what the run did, for the properties below

octVars == <<octLen, octValue, octField, octRet, octBefore, octGot>>
wfVars == <<wfName, wfTable, wfRet>>
flagVars == <<listFlag, extractFlag, createFlag, tostdoutFlag>>
hdrVars == <<inHeader, badHeader, skipFileFlag, warnedRoot, eofFlag, dataCc,
             outFd, outName, uid, gid, mtime>>
tarVars == <<tarName, tarFd, tarDev, tarInode>>
bufVars == <<buf, cpOff, inCc, nTarReads>>
srcVars == <<srcFs, srcOpen, tarEnv, nTarWrites>>
outVars == <<outFs, outEnv, openFds, closedFds, fdFile, nOutWrites, stdout>>
progVars == <<flagVars, hdrVars, tarVars, bufVars, srcVars, outVars,
              errorFlag, mode, argv, frames, tarFile, tarPos, stderr,
              exitCode, thenRead, hist>>

vars == <<pc, octVars, wfVars, progVars>>

----------------------------------------------------------------------------
(* Bytes and C strings *)

NUL == 0
SPACE == 32
SLASH == 47
DIGIT0 == 48

\* the element of a set of one element.  The({F(x) : x \in {e}}) is F(e) with e
\* evaluated once, whatever the number of times F uses its argument.
The(S) == CHOOSE x \in S : TRUE

\* n bytes of value b (memset)
Fill(n, b) == [i \in 1..n |-> b]

\* bytes i..j of s, 1-based, empty when j < i
Slice(s, i, j) == IF j < i THEN << >> ELSE SubSeq(s, i, j)

Min(a, b) == IF a < b THEN a ELSE b

\* isOctal(ch): '0' <= ch <= '7'
isOctal(ch) == ch >= DIGIT0 /\ ch <= DIGIT0 + 7

----------------------------------------------------------------------------
(* putOctal *)

\* the digits "%lo" prints for a non-negative value
RECURSIVE OctalDigits(_)
OctalDigits(v) ==
    IF v < 8 THEN <<DIGIT0 + v>>
    ELSE OctalDigits(v \div 8) \o <<DIGIT0 + (v % 8)>>

\* "%lo" prints a long as an unsigned long: 22 octal digits for 64 bits
ULongDigits == 22

\* the digits "%lo" prints for a negative value v: those of 2^64 + v, which are
\* a leading 1 and the 21 digits of 8^21 - 1 - (-v - 1)
NegOctalDigits(v) ==
    LET d == OctalDigits(-v - 1)
        pad == Fill(ULongDigits - 1 - Len(d), DIGIT0) \o d
    IN <<DIGIT0 + 1>> \o [i \in 1..(ULongDigits - 1) |-> DIGIT0 + 7 - (pad[i] - DIGIT0)]

\* sprintf (tempString, " %0*lo", width, value)
SprintfOctal(width, value) ==
    LET d == IF value < 0 THEN NegOctalDigits(value) ELSE OctalDigits(value)
        z == IF Len(d) < width THEN Fill(width - Len(d), DIGIT0) ELSE << >>
    IN <<SPACE>> \o z \o d

\* putOctal that cuts the string to the field instead of suppressing the space
PutOctalKeepSpace(cp, len, value) ==
    LET tempString == SprintfOctal(len - 2, value)
        tempLength == Len(tempString) + 1
    IN IF tempLength - 2 > len
       THEN [ok |-> FALSE, field |-> cp]
       ELSE [ok |-> TRUE, field |-> SubSeq(tempString \o <<NUL>>, 1, len)]

\* putOctal after its sprintf, which left tempString: lines 1240-1267
PutOctalString(cp, len, tempString) ==
    LET tempLength == Len(tempString) + 1
        \* If the string is too large, suppress the leading space.
        drop == tempLength > len
        tempString1 == IF drop THEN Tail(tempString) ELSE tempString
        tempLength1 == IF drop THEN tempLength - 1 ELSE tempLength
        \* If the string is still too large, suppress the trailing null.
        tempLength2 == IF tempLength1 > len THEN tempLength1 - 1 ELSE tempLength1
    IN IF tempLength2 > len
       THEN [ok |-> FALSE, field |-> cp]
       ELSE [ok |-> TRUE, field |-> SubSeq(tempString1 \o <<NUL>>, 1, len)]

\* putOctal that keeps the trailing null: it fails when the digits fill the
\* field
PutOctalKeepNul(cp, len, value) ==
    LET tempString == SprintfOctal(len - 2, value)
    IN IF Len(tempString) > len
       THEN [ok |-> FALSE, field |-> cp]
       ELSE PutOctalString(cp, len, tempString)

\* putOctal (cp, len, value): the return value and the field afterwards
putOctal(cp, len, value) ==
    PutOctalString(cp, len, SprintfOctal(len - 2, value))

----------------------------------------------------------------------------
(* getOctal *)

\* while ((len > 0) && (*cp == ' ')) { cp++; len--; }: the index reached
RECURSIVE SkipSpaces(_, _, _)
SkipSpaces(cp, i, len) ==
    IF i <= len /\ cp[i] = SPACE THEN SkipSpaces(cp, i + 1, len) ELSE i

\* while ((len > 0) && isOctal (*cp)) { val = val * 8 + *cp++ - '0'; len--; }
RECURSIVE OctalAccum(_, _, _, _)
OctalAccum(cp, i, len, val) ==
    IF i <= len /\ isOctal(cp[i])
    THEN OctalAccum(cp, i + 1, len, val * 8 + cp[i] - DIGIT0)
    ELSE [val |-> val, i |-> i]

\* getOctal (cp, len): cp is the field's bytes, -1 on an illegal format
getOctal(cp, len) ==
    LET i1 == SkipSpaces(cp, 1, len)
    IN IF i1 > len \/ ~isOctal(cp[i1]) THEN -1
       ELSE LET r == OctalAccum(cp, i1, len, 0)
                i3 == SkipSpaces(cp, r.i, len)
            IN IF i3 <= len /\ cp[i3] # NUL THEN -1 ELSE r.val

----------------------------------------------------------------------------
(* wantFileName *)

\* the loop without the test of the byte that follows the prefix
RECURSIVE WantScanAnyPrefix(_, _, _)
WantScanAnyPrefix(fileName, fileTable, k) ==
    IF k > Len(fileTable) THEN FALSE
    ELSE IF Len(fileName) >= Len(fileTable[k])
            /\ SubSeq(fileName, 1, Len(fileTable[k])) = fileTable[k]
    THEN TRUE
    ELSE WantScanAnyPrefix(fileName, fileTable, k + 1)

\* the while loop over fileTable, from entry k on
RECURSIVE WantScan(_, _, _)
WantScan(fileName, fileTable, k) ==
    IF k > Len(fileTable) THEN FALSE
    ELSE LET pathName == fileTable[k]
             fileLength == Len(fileName)
             pathLength == Len(pathName)
         IN IF fileLength < pathLength
            THEN WantScan(fileName, fileTable, k + 1)
            ELSE IF SubSeq(fileName, 1, pathLength) # pathName
            THEN WantScan(fileName, fileTable, k + 1)
            ELSE IF fileLength = pathLength \/ fileName[pathLength + 1] = SLASH
            THEN TRUE
            ELSE WantScan(fileName, fileTable, k + 1)

\* wantFileName (fileName, fileCount, fileTable)
wantFileName(fileName, fileCount, fileTable) ==
    IF fileCount = 0 THEN TRUE ELSE WantScan(fileName, fileTable, 1)

----------------------------------------------------------------------------
(* The tar header: TarHeader, and the file modes of <sys/stat.h> *)

TAR_BLOCK_SIZE == 512
TAR_NAME_SIZE == 100

\* typedef struct { char name[TAR_NAME_SIZE]; ... char prefix[155]; } TarHeader
TarHeaderFields ==
    << <<"name", TAR_NAME_SIZE>>, <<"mode", 8>>, <<"uid", 8>>, <<"gid", 8>>,
       <<"size", 12>>, <<"mtime", 12>>, <<"checkSum", 8>>, <<"typeFlag", 1>>,
       <<"linkName", TAR_NAME_SIZE>>, <<"magic", 6>>, <<"version", 2>>,
       <<"uname", 32>>, <<"gname", 32>>, <<"devMajor", 8>>, <<"devMinor", 8>>,
       <<"prefix", 155>> >>

\* the index of field f in TarHeaderFields
FieldIndex(f) == CHOOSE k \in 1..Len(TarHeaderFields) : TarHeaderFields[k][1] = f

\* sizeof (hp->f)
FieldSize(f) == TarHeaderFields[FieldIndex(f)][2]

RECURSIVE SizeUpTo(_)
SizeUpTo(k) == IF k = 0 THEN 0 ELSE SizeUpTo(k - 1) + TarHeaderFields[k][2]

\* offsetof (TarHeader, f), counted from 0
FieldOffset(f) == SizeUpTo(FieldIndex(f) - 1)

\* sizeof (TarHeader): the struct holds chars only and is not padded
HeaderSize == SizeUpTo(Len(TarHeaderFields))

\* the bytes of field f of the header (or block) hp
Field(hp, f) == SubSeq(hp, FieldOffset(f) + 1, FieldOffset(f) + FieldSize(f))

\* memory mem with bytes stored from offset off (counted from 0) on
Store(mem, off, bytes) ==
    The({Slice(m, 1, off) \o b \o Slice(m, off + Len(b) + 1, Len(m)) :
            m \in {mem}, b \in {bytes}})

\* the C string that starts at offset off of mem: the bytes before the first NUL
CStringEnd(mem, i) ==
    IF \E j \in i..Len(mem) : mem[j] = NUL
    THEN CHOOSE j \in i..Len(mem) :
             mem[j] = NUL /\ \A k \in i..(j - 1) : mem[k] # NUL
    ELSE Len(mem) + 1

CString(mem, off) == Slice(mem, off + 1, CStringEnd(mem, off + 1) - 1)

\* strncpy (dst, src, n): n bytes, src and then NULs
Strncpy(src, n) == [i \in 1..n |-> IF i <= Len(src) THEN src[i] ELSE NUL]

\* "ustar" and "00"
TAR_MAGIC == <<117, 115, 116, 97, 114>>
TAR_VERSION == <<DIGIT0, DIGIT0>>

TAR_TYPE_REGULAR == DIGIT0
TAR_TYPE_HARD_LINK == DIGIT0 + 1
TAR_TYPE_SOFT_LINK == DIGIT0 + 2

S_IFMT == 61440
S_IFSOCK == 49152
S_IFREG == 32768
S_IFBLK == 24576
S_IFDIR == 16384
S_IFCHR == 8192
S_IFIFO == 4096

\* mode & S_IFMT, for a mode that is not negative
FileType(m) == ((m \div S_IFIFO) % 16) * S_IFIFO

S_ISDIR(m) == FileType(m) = S_IFDIR
S_ISREG(m) == FileType(m) = S_IFREG
S_ISCHR(m) == FileType(m) = S_IFCHR
S_ISBLK(m) == FileType(m) = S_IFBLK
S_ISFIFO(m) == FileType(m) = S_IFIFO
S_ISSOCK(m) == FileType(m) = S_IFSOCK

\* mode |= S_IFDIR
OrIFDIR(m) == IF (m \div S_IFDIR) % 2 = 1 THEN m ELSE m + S_IFDIR

\* the sum of bytes lo..hi of mem
RECURSIVE RangeSum(_, _, _)
RangeSum(mem, lo, hi) ==
    IF lo > hi THEN 0
    ELSE IF lo = hi THEN mem[lo]
    ELSE LET mid == (lo + hi) \div 2
         IN RangeSum(mem, lo, mid) + RangeSum(mem, mid + 1, hi)

\* the sum of the first n bytes of mem
ByteSum(mem, n) == The({RangeSum(m, 1, n) : m \in {mem}})

----------------------------------------------------------------------------
(* The writer: writeTarBlock, writeHeader, saveRegularFile, saveDirectory *)

(* The writer's operators thread a record w through the calls:               *)
(*   w.out        the bytes of the archive                                   *)
(*   w.calls      the fullWrite calls on the archive so far                  *)
(*   w.errorFlag  the static errorFlag                                       *)
(*   w.err        the diagnostics printed                                    *)
(*   w.ret        what the last fullWrite returned                           *)

\* fullWrite (tarFd, data, Len(data)): the amount written, or -1 on an error;
\* the call numbered tarEnv.failWrite fails and writes nothing
fullWrite(w, data) ==
    IF w.calls = tarEnv.failWrite
    THEN [w EXCEPT !.calls = @ + 1, !.ret = -1]
    ELSE [w EXCEPT !.calls = @ + 1, !.ret = Len(data), !.out = @ \o data]

\* writeTarBlock that pads no partial block
WriteTarBlockNoPad(w, data, len) ==
    IF w.errorFlag THEN w ELSE fullWrite(w, SubSeq(data, 1, len))

\* writeTarBlock (data, len)
writeTarBlock(w, data, len) ==
    LET partialLength == len % TAR_BLOCK_SIZE
        completeLength == len - partialLength
    IN
    \* if we had a write error before, then do nothing more
    IF w.errorFlag THEN w
    ELSE
      The({IF completeLength > 0 /\ w1.ret = 0
           THEN [w1 EXCEPT !.errorFlag = TRUE, !.err = Append(@, "perror tarName")]
           ELSE IF partialLength = 0 THEN w1
           ELSE
             \* the partial data in a complete block, padded with zeroes
             The({IF w2.ret = 0
                  THEN [w2 EXCEPT !.errorFlag = TRUE,
                                  !.err = Append(@, "perror tarName")]
                  ELSE w2 :
                    w2 \in {fullWrite(w1, SubSeq(data, completeLength + 1, len)
                                  \o Fill(TAR_BLOCK_SIZE - partialLength, NUL))}}) :
             w1 \in {IF completeLength > 0
                     THEN fullWrite(w, SubSeq(data, 1, completeLength))
                     ELSE w}})

\* one assignment of writeHeader to a field of the header
StoreBytes(f, bytes) == [f |-> f, how |-> "bytes", bytes |-> bytes, value |-> 0]
StoreOctal(f, value) == [f |-> f, how |-> "octal", bytes |-> << >>, value |-> value]
StoreSum(f) == [f |-> f, how |-> "sum", bytes |-> << >>, value |-> 0]

\* the assignments of a writeHeader that sums the bytes before it blanks the
\* checksum field
HeaderStoresSumFirst(fileName, statbuf) ==
    << StoreBytes("name", fileName \o <<NUL>>),
       StoreBytes("magic", Strncpy(TAR_MAGIC, FieldSize("magic"))),
       StoreBytes("version", Strncpy(TAR_VERSION, FieldSize("version"))),
       StoreOctal("mode", statbuf.st_mode % 512),
       StoreOctal("uid", statbuf.st_uid),
       StoreOctal("gid", statbuf.st_gid),
       StoreOctal("size", statbuf.st_size),
       StoreOctal("mtime", statbuf.st_mtime),
       StoreBytes("typeFlag", <<TAR_TYPE_REGULAR>>),
       StoreSum("checkSum") >>

\* the assignments of writeHeader to the zeroed header, in its order: strcpy,
\* strncpy, putOctal (its return value ignored), the checksum over the header
\* with blanks in the checksum field
HeaderStores(fileName, statbuf) ==
    << StoreBytes("name", fileName \o <<NUL>>),
       StoreBytes("magic", Strncpy(TAR_MAGIC, FieldSize("magic"))),
       StoreBytes("version", Strncpy(TAR_VERSION, FieldSize("version"))),
       \* statbuf->st_mode & 0777
       StoreOctal("mode", statbuf.st_mode % 512),
       StoreOctal("uid", statbuf.st_uid),
       StoreOctal("gid", statbuf.st_gid),
       StoreOctal("size", statbuf.st_size),
       StoreOctal("mtime", statbuf.st_mtime),
       StoreBytes("typeFlag", <<TAR_TYPE_REGULAR>>),
       StoreBytes("checkSum", Fill(FieldSize("checkSum"), SPACE)),
       StoreSum("checkSum") >>

\* the header after the assignments stores[k], stores[k + 1], ...
RECURSIVE StoreAll(_, _, _)
StoreAll(header, stores, k) ==
    IF k > Len(stores) THEN header
    ELSE
      LET s == stores[k]
      IN StoreAll(
           Store(header, FieldOffset(s.f),
                 IF s.how = "bytes" THEN s.bytes
                 ELSE putOctal(Field(header, s.f), FieldSize(s.f),
                               IF s.how = "sum" THEN ByteSum(header, HeaderSize)
                               ELSE s.value).field),
           stores, k + 1)

\* the header writeHeader builds for fileName and statbuf
HeaderBlock(fileName, statbuf) ==
    StoreAll(Fill(HeaderSize, NUL), HeaderStores(fileName, statbuf), 1)

\* writeHeader (fileName, statbuf)
writeHeader(w, fileName, statbuf) ==
    writeTarBlock(w, HeaderBlock(fileName, statbuf), HeaderSize)

\* sizeof (data) in saveRegularFile: TAR_BLOCK_SIZE * 16
DataBlocks == 16
DataSize == TAR_BLOCK_SIZE * DataBlocks

\* fullRead (fileFd, data, dataCount) at offset pos of a file that holds bytes:
\* the amount read, short at the end of the file
fullRead(bytes, pos, dataCount) == Min(dataCount, Len(bytes) - pos)

\* saveRegularFile's while (fullDataCount > 0) loop on the open file e, from
\* offset pos of it on; nRead counts the fullRead calls
RECURSIVE SaveLoop(_, _, _, _, _, _)
SaveLoop(w, e, pos, fullDataCount, sawEof, nRead) ==
    IF fullDataCount <= 0 THEN [w |-> w, readError |-> FALSE]
    ELSE
      LET dataCount == Min(DataSize, fullDataCount)
          cc == IF sawEof THEN 0 ELSE fullRead(e.data, pos, dataCount)
          short == ~sawEof /\ cc < dataCount
      IN IF ~sawEof /\ e.readErrAt = nRead
         THEN [w |-> [w EXCEPT !.errorFlag = TRUE,
                               !.err = Append(@, "perror fileName")],
               readError |-> TRUE]
         ELSE SaveLoop(writeTarBlock(
                         IF short
                         THEN [w EXCEPT !.err = Append(@, "Short read - zero filling")]
                         ELSE w,
                         \* what was read, zero filled up to dataCount
                         Slice(e.data, pos + 1, pos + cc) \o Fill(dataCount - cc, NUL),
                         dataCount),
                       e, pos + cc, fullDataCount - dataCount,
                       sawEof \/ short, nRead + 1)

\* saveRegularFile (fileName, statbuf) on the file e: the writer record
\* afterwards and whether the file is left open
saveRegularFile(w, fileName, e) ==
    IF e.openFails
    THEN [w |-> [w EXCEPT !.err = Append(@, "perror fileName")],
          opened |-> FALSE, readError |-> FALSE, leftOpen |-> FALSE]
    ELSE
      The({[w |-> r.w, opened |-> TRUE, readError |-> r.readError,
            \* a read error closes the file; the end of the loop closes it
            \* if (tostdoutFlag == FALSE)
            leftOpen |-> ~r.readError /\ tostdoutFlag] :
             r \in {SaveLoop(writeHeader(w, fileName, e.statbuf), e, 0,
                             e.statbuf.st_size, FALSE, 0)}})

\* the names saveDirectory hands to saveFile: dirName, a slash if needed,
\* d_name, for every entry but "." and ".."
ChildNames(dirName, e) ==
    LET needSlash == dirName # << >> /\ dirName[Len(dirName)] # SLASH
        wanted == SelectSeq(e.entries, LAMBDA n : n # <<46>> /\ n # <<46, 46>>)
    IN [k \in 1..Len(wanted) |->
          dirName \o (IF needSlash THEN <<SLASH>> ELSE << >>) \o wanted[k]]

----------------------------------------------------------------------------
(* The writer's steps: writeTarFile, saveFile, the ends of the loops *)

S_IFLNK == 40960

\* the descriptors a process starts with: stdin, stdout, stderr
StdFds == {0, 1, 2}

\* the lowest descriptor that is not open: what open returns
NextFd(fds) == CHOOSE n \in 0..(Cardinality(fds) + 1) :
                   n \notin fds /\ \A m \in 0..(n - 1) : m \in fds

\* what stat (seeLinks = FALSE) or lstat (seeLinks = TRUE) stores for entry e
StatOf(e, seeLinks) ==
    IF seeLinks /\ e.symlink
    THEN [e.statbuf EXCEPT !.st_mode = S_IFLNK + 511]
    ELSE e.statbuf

\* the writer record of the current state
WriterNow ==
    [out |-> tarFile, calls |-> nTarWrites, errorFlag |-> errorFlag,
     err |-> stderr, ret |-> 0]

\* one entry of hist.saved: what saveFile archived for fileName
Saved(fileName, headerName, statbuf, e, w1, isDir, readError) ==
    [name |-> fileName, headerName |-> headerName, statbuf |-> statbuf,
     data |-> e.data, isDir |-> isDir, readError |-> readError,
     off |-> Len(tarFile), end |-> Len(w1.out), calls |-> nTarWrites]

\* a test that takes the device for the inode and the inode for the device
ArchiveItselfSwapped(statbuf) ==
    statbuf.st_dev = tarInode /\ statbuf.st_ino = tarDev

\* (statbuf.st_dev == tarDev) && (statbuf.st_ino == tarInode)
IsArchiveItself(statbuf) ==
    statbuf.st_dev = tarDev /\ statbuf.st_ino = tarInode

\* saveFile (fileName, seeLinks) below the loops rest: the writer record, the
\* loops, the open sources, the static mode and the history afterwards
saveFile(fileName, seeLinks, rest) ==
    LET same == [w |-> WriterNow, frames |-> rest, srcOpen |-> srcOpen,
                 mode |-> mode, saved |-> << >>]
    IN
    IF Len(fileName) >= TAR_NAME_SIZE
    THEN [same EXCEPT !.w.err = Append(@, "File name is too long")]
    ELSE IF fileName \notin DOMAIN srcFs
    THEN [same EXCEPT !.w.err = Append(@, "perror fileName")]
    ELSE
      LET e == srcFs[fileName]
          statbuf == StatOf(e, seeLinks)
      IN
      IF IsArchiveItself(statbuf)
      THEN [same EXCEPT !.w.err = Append(@, "Skipping saving of archive file itself")]
      ELSE IF S_ISDIR(statbuf.st_mode)
      THEN
        \* saveDirectory (fileName, &statbuf)
        The({IF e.openFails
             THEN [w |-> [w1 EXCEPT !.err = Append(@, "Cannot read directory")],
                   frames |-> rest, srcOpen |-> srcOpen, mode |-> statbuf.st_mode,
                   saved |-> <<Saved(fileName, fileName \o <<SLASH>>, statbuf, e,
                                     w1, TRUE, FALSE)>>]
             ELSE [w |-> w1,
                   frames |-> <<[dir |-> fileName, isDir |-> TRUE,
                                 names |-> ChildNames(fileName, e)]>> \o rest,
                   srcOpen |-> srcOpen \cup {fileName}, mode |-> statbuf.st_mode,
                   saved |-> <<Saved(fileName, fileName \o <<SLASH>>, statbuf, e,
                                     w1, TRUE, FALSE)>>] :
               w1 \in {writeHeader(WriterNow, fileName \o <<SLASH>>, statbuf)}})
      ELSE IF S_ISREG(statbuf.st_mode)
      THEN
        The({[w |-> r.w, frames |-> rest,
              srcOpen |-> IF r.leftOpen THEN srcOpen \cup {fileName} ELSE srcOpen,
              mode |-> statbuf.st_mode,
              saved |-> IF r.opened
                        THEN <<Saved(fileName, fileName, statbuf, e, r.w, FALSE,
                                     r.readError)>>
                        ELSE << >>] :
               r \in {saveRegularFile(WriterNow, fileName, e)}})
      ELSE [same EXCEPT !.w.err = Append(@, "not a directory or regular file"),
                        !.mode = statbuf.st_mode]

\* writeTarFile, up to its loop over the names: lines 796-833
WriteTarFileOpen ==
    /\ pc = "main" /\ createFlag
    /\ LET noFiles == Len(argv) <= 0
           toStdout == tarName \in {"NULL", "-"}
           openFailed == ~toStdout /\ tarEnv.openFails
           fd == IF toStdout THEN 1 ELSE NextFd(openFds)
           err0 == IF noFiles THEN <<"No files specified to be saved">> ELSE << >>
       IN /\ tostdoutFlag' = (tostdoutFlag \/ toStdout)
          /\ tarFd' = IF openFailed THEN -1 ELSE fd
          /\ errorFlag' = (errorFlag \/ noFiles \/ openFailed \/ tarEnv.fstatFails)
          /\ stderr' = stderr \o err0 \o
                (IF openFailed \/ tarEnv.fstatFails THEN <<"perror tarName">> ELSE << >>)
          \* open (tarName, O_WRONLY | O_CREAT | O_TRUNC, 0666)
          /\ tarFile' = IF toStdout \/ openFailed THEN tarFile ELSE << >>
          /\ hist' = [hist EXCEPT !.tarOpened = ~openFailed]
          /\ IF openFailed
             THEN /\ pc' = "exit"
                  /\ UNCHANGED <<openFds, closedFds, tarDev, tarInode, frames>>
             ELSE IF tarEnv.fstatFails
             THEN \* goto done: the archive is closed unless it is stdout
                  /\ pc' = "exit"
                  /\ openFds' = IF toStdout THEN openFds ELSE openFds \ {fd}
                  /\ closedFds' = IF toStdout THEN closedFds ELSE Append(closedFds, fd)
                  /\ UNCHANGED <<tarDev, tarInode, frames>>
             ELSE /\ pc' = "save"
                  /\ openFds' = openFds \cup {fd}
                  /\ tarDev' = tarEnv.dev
                  /\ tarInode' = tarEnv.ino
                  /\ frames' = <<[dir |-> << >>, isDir |-> FALSE, names |-> argv]>>
                  /\ UNCHANGED closedFds
    /\ UNCHANGED <<octVars, wfVars, listFlag, extractFlag, createFlag, hdrVars,
                   tarName, bufVars, srcVars, outFs, outEnv, fdFile, nOutWrites,
                   stdout, mode, argv, tarPos, exitCode, thenRead>>

\* one turn of the innermost loop: saveFile on its next name (lines 839-841
\* and 1078-1099)
SaveFile ==
    /\ pc = "save" /\ ~errorFlag /\ Head(frames).names # << >>
    /\ \E r \in {saveFile(Head(Head(frames).names), Head(frames).isDir,
                            <<[Head(frames) EXCEPT !.names = Tail(@)]>>
                                \o Tail(frames))} :
          /\ tarFile' = r.w.out
          /\ nTarWrites' = r.w.calls
          /\ errorFlag' = r.w.errorFlag
          /\ stderr' = r.w.err
          /\ frames' = r.frames
          /\ srcOpen' = r.srcOpen
          /\ mode' = r.mode
          /\ hist' = [hist EXCEPT !.saved = @ \o r.saved]
    /\ UNCHANGED <<pc, octVars, wfVars, flagVars, hdrVars, tarVars, bufVars, srcFs,
                   tarEnv, outVars, argv, tarPos, exitCode, thenRead>>

\* the innermost loop ends: closedir in saveDirectory (line 1104), or the end of
\* writeTarFile's loop
LoopEnd ==
    /\ pc = "save" /\ (errorFlag \/ Head(frames).names = << >>)
    /\ frames' = Tail(frames)
    /\ IF Head(frames).isDir
       THEN /\ srcOpen' = srcOpen \ {Head(frames).dir}
            /\ pc' = "save"
       ELSE /\ pc' = "end"
            /\ UNCHANGED srcOpen
    /\ UNCHANGED <<octVars, wfVars, flagVars, hdrVars, tarVars, bufVars, srcFs,
                   tarEnv, nTarWrites, outVars, errorFlag, mode, argv, tarFile,
                   tarPos, stderr, exitCode, thenRead, hist>>

\* the end of writeTarFile: the block of zeroes and the close (lines 843-855)
WriteTarFileEnd ==
    /\ pc = "end"
    /\ \E w \in {writeTarBlock(WriterNow, <<NUL>>, 1)} :
          /\ tarFile' = w.out
          /\ nTarWrites' = w.calls
          /\ errorFlag' = w.errorFlag
          /\ stderr' = w.err
    /\ IF tostdoutFlag = FALSE /\ tarFd >= 0
       THEN /\ openFds' = openFds \ {tarFd}
            /\ closedFds' = Append(closedFds, tarFd)
       ELSE UNCHANGED <<openFds, closedFds>>
    /\ pc' = "exit"
    /\ UNCHANGED <<octVars, wfVars, flagVars, hdrVars, tarVars, bufVars, srcFs,
                   srcOpen, tarEnv, outFs, outEnv, fdFile, nOutWrites, stdout,
                   mode, argv, frames, tarPos, exitCode, thenRead, hist>>

\* tar_main's exit (!errorFlag): lines 269-272
TarExit ==
    /\ pc = "exit"
    /\ exitCode' = IF errorFlag THEN 0 ELSE 1
    /\ pc' = "exited"
    /\ UNCHANGED <<octVars, wfVars, flagVars, hdrVars, tarVars, bufVars, srcVars,
                   outVars, errorFlag, mode, argv, frames, tarFile, tarPos,
                   stderr, thenRead, hist>>

----------------------------------------------------------------------------
(* The file system the reader extracts into *)

\* a path without its trailing slashes: the file a system call resolves it to
RECURSIVE PathOf(_)
PathOf(name) ==
    IF name # << >> /\ name[Len(name)] = SLASH
    THEN PathOf(SubSeq(name, 1, Len(name) - 1))
    ELSE name

\* a new file system object: its mtime is the time of its creation (fresh)
\* until utime sets it
Created(kind, perm, target) ==
    [kind |-> kind, perm |-> perm % 4096, data |-> << >>, target |-> target,
     uid |-> 0, gid |-> 0, mtime |-> 0, fresh |-> TRUE]

\* mkdir (dir, perm) with umask 0: nothing changes if dir exists (EEXIST)
Mkdir(fs, dir, perm) ==
    IF dir \in DOMAIN fs THEN fs ELSE fs @@ (dir :> Created("dir", perm, << >>))

\* whether mkdir (dir, ...) fails with an error other than EEXIST
MkdirFails(fs, dir) == dir = << >> \/ (dir \notin DOMAIN fs /\ dir \in outEnv.fail)

\* createPath (name, perm), from the byte name[k] on: a mkdir for every prefix
\* of name that ends before a slash, with perm for the last of them and 0777
\* for the others; FALSE at the first mkdir that fails
RECURSIVE CreatePathFrom(_, _, _, _)
CreatePathFrom(r, name, perm, k) ==
    The({
      IF j > Len(name) THEN r
      ELSE IF MkdirFails(r.fs, PathOf(SubSeq(name, 1, j - 1)))
      THEN [r EXCEPT !.ok = FALSE, !.err = Append(@, "perror createPath")]
      ELSE CreatePathFrom(
             [r EXCEPT !.fs = Mkdir(@, PathOf(SubSeq(name, 1, j - 1)),
                                    IF \E i \in (j + 1)..Len(name) : name[i] = SLASH
                                    THEN 511 ELSE perm)],
             name, perm, j + 1) :
      \* the bytes that are no slash are passed over
      j \in {IF \E i \in k..Len(name) : name[i] = SLASH
             THEN CHOOSE i \in k..Len(name) :
                      /\ name[i] = SLASH
                      /\ \A h \in k..(i - 1) : name[h] # SLASH
             ELSE Len(name) + 1}})

\* createPath (name, perm) on the file system fs: the file system afterwards,
\* the return value and the diagnostics
createPath(fs, name, perm) ==
    CreatePathFrom([fs |-> fs, ok |-> TRUE, err |-> << >>], name, perm, 1)

\* utime (name, mtime); chown (name, uid, gid); chmod (name, mode) with the
\* statics as they are in s: each fails silently if name does not exist
SetTimeAndPermissions(s, name) ==
    IF PathOf(name) \in DOMAIN s.outFs
    THEN [s EXCEPT !.outFs[PathOf(name)] =
                       [@ EXCEPT !.mtime = s.mtime, !.fresh = FALSE,
                                 !.uid = s.uid, !.gid = s.gid,
                                 !.perm = s.mode % 4096]]
    ELSE s

\* close (fd)
Close(s, fd) ==
    [s EXCEPT !.openFds = @ \ {fd}, !.closedFds = Append(@, fd)]

\* link (target, name) < 0
LinkFails(fs, target, name) ==
    \/ name \in outEnv.fail
    \/ name = << >>
    \/ name[Len(name)] = SLASH
    \/ PathOf(name) \in DOMAIN fs
    \/ PathOf(target) \notin DOMAIN fs

\* symlink (target, name) < 0
SymlinkFails(fs, name) ==
    \/ name \in outEnv.fail
    \/ name = << >>
    \/ name[Len(name)] = SLASH
    \/ PathOf(name) \in DOMAIN fs

\* mknod (name, ...) < 0 and mkfifo (name, ...) < 0
MknodFails(fs, name) ==
    name \in outEnv.fail \/ name = << >> \/ PathOf(name) \in DOMAIN fs

\* open (name, O_WRONLY | O_CREAT | O_TRUNC, ...) < 0
OpenFails(fs, name) ==
    \/ name \in outEnv.fail
    \/ name = << >>
    \/ name[Len(name)] = SLASH
    \/ (name \in DOMAIN fs /\ fs[name].kind = "dir")

\* the file that open (name, O_WRONLY | O_CREAT | O_TRUNC, perm) leaves
Opened(fs, name, perm) ==
    IF name \in DOMAIN fs
    THEN [fs EXCEPT ![name].data = << >>, ![name].fresh = TRUE]
    ELSE fs @@ (name :> Created("file", perm, << >>))

----------------------------------------------------------------------------
(* The reader: readHeader, readData *)

\* sizeof (buf) in readTarFile, in blocks
BufBlocks == 2
BUF_SIZE == BufBlocks * TAR_BLOCK_SIZE

(* The reader's operators thread a record s of the statics and of the world  *)
(* that readHeader and readData change.  outName is a pointer into buf: it   *)
(* is kept as an offset, and the string it points to is read from buf when   *)
(* it is used.                                                               *)
ReaderNow ==
    [inHeader |-> inHeader, badHeader |-> badHeader,
     skipFileFlag |-> skipFileFlag, warnedRoot |-> warnedRoot,
     eofFlag |-> eofFlag, dataCc |-> dataCc, outFd |-> outFd,
     outName |-> outName, mode |-> mode, uid |-> uid, gid |-> gid,
     mtime |-> mtime, outFs |-> outFs, openFds |-> openFds,
     closedFds |-> closedFds, fdFile |-> fdFile, nOutWrites |-> nOutWrites,
     stdout |-> stdout, stderr |-> stderr]

\* a test for the end of the archive that looks at the first byte only
FirstByteIsNul(hp) == hp[1] = NUL

\* for (cc = TAR_BLOCK_SIZE; cc > 0; cc--) if (*outName++) return; falls through
IsEmptyBlock(hp) == \A i \in 1..TAR_BLOCK_SIZE : hp[i] = NUL

\* the number of bytes that loop has stepped over when it ends
EmptyScan(hp) ==
    IF IsEmptyBlock(hp) THEN TAR_BLOCK_SIZE
    ELSE CHOOSE i \in 1..TAR_BLOCK_SIZE :
             hp[i] # NUL /\ \A j \in 1..(i - 1) : hp[j] = NUL

\* the fields of the header hp that readHeader decodes
Decoded(hp) ==
    [mode |-> getOctal(Field(hp, "mode"), FieldSize("mode")),
     uid |-> getOctal(Field(hp, "uid"), FieldSize("uid")),
     gid |-> getOctal(Field(hp, "gid"), FieldSize("gid")),
     size |-> getOctal(Field(hp, "size"), FieldSize("size")),
     mtime |-> getOctal(Field(hp, "mtime"), FieldSize("mtime")),
     checkSum |-> getOctal(Field(hp, "checkSum"), FieldSize("checkSum")),
     major |-> getOctal(Field(hp, "devMajor"), FieldSize("devMajor")),
     minor |-> getOctal(Field(hp, "devMinor"), FieldSize("devMinor")),
     typeFlag |-> hp[FieldOffset("typeFlag") + 1],
     \* the strings at hp->name and at hp->linkName
     name |-> CString(hp, 0),
     linkName |-> CString(hp, FieldOffset("linkName"))]

\* the number of slashes that name starts with
RECURSIVE LeadingSlashes(_)
LeadingSlashes(name) ==
    IF name # << >> /\ Head(name) = SLASH THEN 1 + LeadingSlashes(Tail(name)) ELSE 0

\* S_ISREG (m) || S_ISCHR (m) || S_ISBLK (m) || S_ISSOCK (m) || S_ISFIFO (m)
HasData(m) == FileType(m) \in {S_IFREG, S_IFCHR, S_IFBLK, S_IFSOCK, S_IFIFO}

\* inHeader = (size == 0) ? TRUE : FALSE; dataCc = size;
ExpectData(s, size) == [s EXCEPT !.inHeader = (size = 0), !.dataCc = size]

\* readHeader from line 588 on: the entry d, named name, is a directory or a
\* file to write; s.mode holds its mode
ExtractFile(s, d, name) ==
    The({
      IF S_ISDIR(s.mode) /\ p.ok
      THEN SetTimeAndPermissions([s EXCEPT !.outFs = p.fs], name)
      ELSE
        \* There is a file to write
        The({
          The({
            IF tostdoutFlag
            THEN [s1 EXCEPT !.outFd = 1]
            ELSE IF S_ISCHR(s.mode) \/ S_ISBLK(s.mode) \/ S_ISSOCK(s.mode)
                    \/ S_ISFIFO(s.mode)
            THEN
              \* mknod and mkfifo return 0, which is stored in outFd
              IF MknodFails(s1.outFs, name)
              THEN [s1 EXCEPT !.outFd = -1, !.skipFileFlag = TRUE,
                              !.stderr = Append(@, "perror outName")]
              ELSE SetTimeAndPermissions(
                     [s1 EXCEPT !.outFd = 0,
                                !.outFs = @ @@ (PathOf(name) :>
                                    Created(IF S_ISFIFO(s.mode) THEN "fifo" ELSE "node",
                                            s.mode, << >>))],
                     name)
            ELSE
              IF OpenFails(s1.outFs, name)
              THEN [s1 EXCEPT !.outFd = -1, !.skipFileFlag = TRUE,
                              !.stderr = Append(@, "perror outName")]
              ELSE
                The({
                  \* If the file is empty, then that's all we need to do
                  IF d.size = 0
                  THEN [Close(s2, s2.outFd) EXCEPT !.outFd = -1]
                  ELSE s2 :
                  s2 \in {SetTimeAndPermissions(
                            [s1 EXCEPT !.outFd = NextFd(s1.openFds),
                                       !.openFds = @ \cup {NextFd(s1.openFds)},
                                       !.fdFile = name,
                                       !.outFs = Opened(@, name, s.mode)],
                            name)}}) :
            s1 \in {ExpectData([s EXCEPT !.outFs = q.fs,
                                         !.stderr = @ \o p.err \o q.err],
                               d.size)}}) :
          q \in {createPath(p.fs, name, 511)}}) :
      p \in {IF S_ISDIR(s.mode) THEN createPath(s.outFs, name, s.mode)
             ELSE [fs |-> s.outFs, ok |-> FALSE, err |-> << >>]}})

\* readHeader from line 458 on: the header d, found at offset off of buf, is
\* not a bad one
ReadEntry(s, d, off, fileCount, fileTable) ==
    LET hardLink == d.typeFlag \in {TAR_TYPE_HARD_LINK, TAR_TYPE_HARD_LINK - DIGIT0}
        softLink == d.typeFlag \in {TAR_TYPE_SOFT_LINK, TAR_TYPE_SOFT_LINK - DIGIT0}
        \* Check for a directory
        isDir == d.name[Len(d.name)] = SLASH
        \* Check for absolute paths in the file
        slashes == LeadingSlashes(d.name)
        name == SubSeq(d.name, slashes + 1, Len(d.name))
    IN
    The({
      IF ~wantFileName(name, fileCount, fileTable)
      THEN [(IF ~hardLink /\ ~softLink /\ HasData(s1.mode)
             THEN ExpectData(s1, d.size) ELSE s1)
            EXCEPT !.skipFileFlag = TRUE]
      ELSE IF extractFlag = FALSE
      THEN
        \* just list information about the file
        [(IF ~hardLink /\ ~softLink /\ HasData(s1.mode)
          THEN ExpectData(s1, d.size) ELSE s1)
         EXCEPT !.stdout = Append(@,
                    [line |-> name,
                     link |-> IF hardLink THEN "link to"
                              ELSE IF softLink THEN "symlink to" ELSE "",
                     linkName |-> IF hardLink \/ softLink THEN d.linkName
                                  ELSE << >>])]
      ELSE IF hardLink
      THEN
        IF LinkFails(s1.outFs, d.linkName, name)
        THEN [s1 EXCEPT !.stderr = Append(@, "perror outName")]
        ELSE SetTimeAndPermissions(
               [s1 EXCEPT !.outFs = @ @@ (PathOf(name) :>
                              [s1.outFs[PathOf(d.linkName)]
                               EXCEPT !.target = d.linkName])],
               name)
      ELSE IF softLink
      THEN
        IF SymlinkFails(s1.outFs, name)
        THEN [s1 EXCEPT !.stderr = Append(@, "perror outName")]
        ELSE [s1 EXCEPT !.outFs = @ @@ (PathOf(name) :>
                            [Created("symlink", 511, d.linkName)
                             EXCEPT !.uid = s1.uid, !.gid = s1.gid])]
      ELSE ExtractFile(s1, d, name) :
      s1 \in {[s EXCEPT !.badHeader = FALSE, !.skipFileFlag = FALSE,
                        !.mode = IF isDir THEN OrIFDIR(d.mode) ELSE d.mode,
                        !.uid = d.uid, !.gid = d.gid, !.mtime = d.mtime,
                        !.outName = off + slashes,
                        !.warnedRoot = @ \/ slashes > 0,
                        !.stderr = IF slashes > 0 /\ ~s.warnedRoot
                                   THEN Append(@, "Absolute path detected, removing leading slashes")
                                   ELSE @]}})

\* a reader that takes a bad header for the end of the archive
BadHeaderEndsArchive(s, d, off) ==
    [s EXCEPT !.outName = off, !.mode = d.mode, !.uid = d.uid,
              !.gid = d.gid, !.mtime = d.mtime, !.badHeader = TRUE,
              !.eofFlag = TRUE]

\* readHeader when mode, uid, gid or size is negative: lines 449-456, after
\* the assignments of lines 423 and 440-444
BadHeader(s, d, off) ==
    [s EXCEPT !.outName = off, !.mode = d.mode, !.uid = d.uid,
              !.gid = d.gid, !.mtime = d.mtime, !.badHeader = TRUE,
              !.stderr = IF s.badHeader THEN @
                         ELSE Append(@, "Bad tar header, skipping")]

\* readHeader (hp, fileCount, fileTable), hp being the TAR_BLOCK_SIZE bytes at
\* offset off of buf
readHeader(s, hp, off, fileCount, fileTable) ==
    IF hp[1] = NUL
    THEN [s EXCEPT !.outName = off + EmptyScan(hp),
                   !.eofFlag = @ \/ IsEmptyBlock(hp)]
    ELSE
      The({
        IF d.mode < 0 \/ d.uid < 0 \/ d.gid < 0 \/ d.size < 0
        THEN BadHeader(s, d, off)
        ELSE ReadEntry(s, d, off, fileCount, fileTable) :
        d \in {Decoded(hp)}})

\* fullWrite (outFd, cp, count) by readData: the record afterwards and the
\* return value; the write numbered outEnv.failWrite fails, and so does a
\* write to a descriptor that is not open for writing
SinkWrite(s, data) ==
    IF s.nOutWrites = outEnv.failWrite \/ s.outFd \notin s.openFds \/ s.outFd = 0
    THEN [s |-> [s EXCEPT !.nOutWrites = @ + 1], ret |-> -1]
    ELSE IF s.outFd \in {1, 2}
    THEN [s |-> [s EXCEPT !.nOutWrites = @ + 1,
                          !.stdout = Append(@, [data |-> data])],
          ret |-> Len(data)]
    ELSE [s |-> [s EXCEPT !.nOutWrites = @ + 1,
                          !.outFs[s.fdFile] = [@ EXCEPT !.data = @ \o data,
                                                        !.fresh = TRUE]],
          ret |-> Len(data)]

\* a failed write after which the output file is left open
SinkFailureKeepsOpen(s) ==
    [s EXCEPT !.skipFileFlag = TRUE, !.stderr = Append(@, "perror outName")]

\* readData when fullWrite returned less than 0: lines 676-684
SinkFailure(s) ==
    [(IF tostdoutFlag = FALSE
      THEN [Close(s, s.outFd) EXCEPT !.outFd = -1]
      ELSE s)
     EXCEPT !.skipFileFlag = TRUE, !.stderr = Append(@, "perror outName")]

\* readData (cp, count): data is the count bytes at cp, and bufNow the whole
\* of buf, where outName points
readData(s, data, count, bufNow) ==
    The({
      IF extractFlag = FALSE \/ s.skipFileFlag THEN s1
      ELSE
        The({
          IF w.ret < 0
          THEN SinkFailure(w.s)
          ELSE IF w.s.dataCc <= 0 /\ tostdoutFlag = FALSE
          THEN [SetTimeAndPermissions(Close(w.s, w.s.outFd),
                                      CString(bufNow, w.s.outName))
                EXCEPT !.outFd = -1]
          ELSE w.s :
          w \in {SinkWrite(s1, data)}}) :
      s1 \in {[s EXCEPT !.dataCc = @ - count,
                        !.inHeader = @ \/ s.dataCc - count <= 0]}})

----------------------------------------------------------------------------
(* The reader's steps: readTarFile *)

\* the statics and the world as the record r gives them
ReaderResult(r) ==
    /\ inHeader' = r.inHeader /\ badHeader' = r.badHeader
    /\ skipFileFlag' = r.skipFileFlag /\ warnedRoot' = r.warnedRoot
    /\ eofFlag' = r.eofFlag /\ dataCc' = r.dataCc /\ outFd' = r.outFd
    /\ outName' = r.outName /\ mode' = r.mode /\ uid' = r.uid /\ gid' = r.gid
    /\ mtime' = r.mtime /\ outFs' = r.outFs /\ openFds' = r.openFds
    /\ closedFds' = r.closedFds /\ fdFile' = r.fdFile
    /\ nOutWrites' = r.nOutWrites /\ stdout' = r.stdout /\ stderr' = r.stderr

\* readTarFile, up to its loop: lines 292-315
ReadTarFileOpen ==
    /\ pc = "main" /\ ~createFlag
    /\ skipFileFlag' = FALSE /\ badHeader' = FALSE /\ warnedRoot' = FALSE
    /\ eofFlag' = FALSE /\ inHeader' = TRUE /\ inCc' = 0 /\ dataCc' = 0
    /\ outFd' = -1 /\ cpOff' = 0
    /\ IF tarName \in {"NULL", "-"}
       THEN \* fileno (stdin)
            /\ tarFd' = 0 /\ pc' = "read"
            /\ UNCHANGED <<openFds, errorFlag, stderr>>
       ELSE IF tarEnv.openFails
       THEN /\ tarFd' = -1 /\ pc' = "exit"
            /\ errorFlag' = TRUE
            /\ stderr' = Append(stderr, "perror tarName")
            /\ UNCHANGED openFds
       ELSE /\ tarFd' = NextFd(openFds) /\ pc' = "read"
            /\ openFds' = openFds \cup {NextFd(openFds)}
            /\ UNCHANGED <<errorFlag, stderr>>
    /\ UNCHANGED <<octVars, wfVars, flagVars, outName, uid, gid, mtime, tarName,
                   tarDev, tarInode, buf, nTarReads, srcVars, outFs, outEnv,
                   closedFds, fdFile, nOutWrites, stdout, mode, argv, frames,
                   tarFile, tarPos, exitCode, thenRead, hist>>

\* the loop of readTarFile when the buffer is used up: lines 327-343
ReadFill ==
    /\ pc = "read" /\ eofFlag = FALSE /\ inCc <= 0
    /\ nTarReads' = nTarReads + 1
    /\ LET cc == Min(BUF_SIZE, Len(tarFile) - tarPos)
       IN IF tarEnv.readErrAt = nTarReads
          THEN /\ inCc' = -1 /\ errorFlag' = TRUE /\ pc' = "done"
               /\ stderr' = Append(stderr, "perror tarName")
               /\ UNCHANGED <<buf, tarPos>>
          ELSE IF cc = 0
          THEN /\ inCc' = 0 /\ errorFlag' = TRUE /\ pc' = "done"
               /\ stderr' = Append(stderr, "Unexpected end of file")
               /\ UNCHANGED <<buf, tarPos>>
          ELSE \* the bytes of buf beyond the cc that were read stay as they were
               /\ buf' = SubSeq(tarFile, tarPos + 1, tarPos + cc)
                             \o Slice(buf, cc + 1, BUF_SIZE)
               /\ inCc' = cc /\ tarPos' = tarPos + cc
               /\ UNCHANGED <<errorFlag, stderr, pc>>
    /\ cpOff' = 0
    /\ UNCHANGED <<octVars, wfVars, flagVars, hdrVars, tarVars, srcVars, outVars,
                   mode, argv, frames, tarFile, exitCode, thenRead, hist>>

\* the loop of readTarFile when a header is expected: lines 348-355
ReadHeader ==
    /\ pc = "read" /\ eofFlag = FALSE /\ inCc > 0 /\ inHeader = TRUE
    /\ \E r \in {readHeader(ReaderNow, SubSeq(buf, cpOff + 1, cpOff + TAR_BLOCK_SIZE),
                             cpOff, Len(argv), argv)} :
          /\ ReaderResult(r)
          \* the block, where it is in the archive, how much of it was read,
          \* and the size of the data the reader now expects after it
          /\ hist' = [hist EXCEPT !.decoded = Append(@,
                    [pos |-> tarPos - inCc, have |-> Min(inCc, TAR_BLOCK_SIZE),
                     block |-> SubSeq(buf, cpOff + 1, cpOff + TAR_BLOCK_SIZE),
                     data |-> IF r.inHeader THEN 0 ELSE r.dataCc])]
    /\ cpOff' = cpOff + TAR_BLOCK_SIZE
    /\ inCc' = inCc - TAR_BLOCK_SIZE
    /\ UNCHANGED <<pc, octVars, wfVars, flagVars, tarVars, buf, nTarReads, srcVars,
                   outEnv, errorFlag, argv, frames, tarFile, tarPos, exitCode,
                   thenRead>>

\* a rounding to the block boundary below, not to the next one
RoundDownToBlock(cc) == cc - (cc % TAR_BLOCK_SIZE)

\* if (cc % TAR_BLOCK_SIZE) cc += TAR_BLOCK_SIZE - (cc % TAR_BLOCK_SIZE);
RoundUpToBlock(cc) ==
    IF cc % TAR_BLOCK_SIZE # 0
    THEN cc + TAR_BLOCK_SIZE - (cc % TAR_BLOCK_SIZE) ELSE cc

\* the loop of readTarFile when data are expected: lines 362-378
ReadData ==
    /\ pc = "read" /\ eofFlag = FALSE /\ inCc > 0 /\ inHeader = FALSE
    /\ LET cc == Min(inCc, dataCc)
           \* round it up to the next block boundary
           used == RoundUpToBlock(cc)
       IN /\ \E r \in {readData(ReaderNow, Slice(buf, cpOff + 1, cpOff + cc), cc, buf)} :
                ReaderResult(r)
          /\ cpOff' = cpOff + used
          /\ inCc' = inCc - used
    /\ UNCHANGED <<pc, octVars, wfVars, flagVars, tarVars, buf, nTarReads, srcVars,
                   outEnv, errorFlag, argv, frames, tarFile, tarPos, exitCode,
                   thenRead, hist>>

\* the end of readTarFile, after the loop or at done: lines 381-398
ReadTarFileDone ==
    /\ (pc = "read" /\ eofFlag = TRUE) \/ pc = "done"
    /\ pc' = "exit"
    /\ LET fds == (IF tarFd >= 0 THEN <<tarFd>> ELSE << >>)
                  \o (IF tostdoutFlag = FALSE /\ outFd >= 0 THEN <<outFd>> ELSE << >>)
       IN /\ openFds' = openFds \ {fds[k] : k \in 1..Len(fds)}
          /\ closedFds' = closedFds \o fds
    /\ UNCHANGED <<octVars, wfVars, flagVars, hdrVars, tarVars, bufVars, srcVars,
                   outFs, outEnv, fdFile, nOutWrites, stdout, errorFlag, mode,
                   argv, frames, tarFile, tarPos, stderr, exitCode, thenRead, hist>>

\* the archive that "tar -c" left is read by a second run, "tar -x" or
\* "tar -t" with no names: the state at line 259 of that run.  The statics
\* and the descriptors are those of a new process, and what its stack holds
\* where buf will be is not known.
StaleBytes == {NUL, 255}

SecondRun ==
    /\ pc = "exited" /\ createFlag /\ thenRead = "none"
    /\ pc' = "main"
    /\ \E what \in {"x", "t"} :
          /\ thenRead' = what
          /\ extractFlag' = (what = "x")
          /\ listFlag' = (what = "t")
    /\ createFlag' = FALSE /\ tostdoutFlag' = FALSE
    /\ errorFlag' = FALSE
    /\ inHeader' = FALSE /\ badHeader' = FALSE /\ skipFileFlag' = FALSE
    /\ warnedRoot' = FALSE /\ eofFlag' = FALSE /\ dataCc' = 0 /\ outFd' = 0
    /\ outName' = -1 /\ mode' = 0 /\ uid' = 0 /\ gid' = 0 /\ mtime' = 0
    /\ tarFd' = -1 /\ tarDev' = 0 /\ tarInode' = 0
    /\ argv' = << >>
    /\ \E b \in StaleBytes : buf' = Fill(BUF_SIZE, b)
    /\ cpOff' = 0 /\ inCc' = 0 /\ nTarReads' = 0
    /\ tarPos' = 0
    /\ openFds' = StdFds /\ closedFds' = << >>
    /\ stdout' = << >> /\ stderr' = << >>
    /\ exitCode' = -1
    /\ hist' = [hist EXCEPT !.first = [argv |-> argv,
                                        errorFlag |-> errorFlag, stderr |-> stderr,
                                        exitCode |-> exitCode, srcOpen |-> srcOpen,
                                        closedFds |-> closedFds]]
    /\ UNCHANGED <<octVars, wfVars, tarName, frames, srcVars, outFs, outEnv,
                   fdFile, nOutWrites, tarFile>>

----------------------------------------------------------------------------
(* The codec alone: putOctal, then getOctal on the field it left *)

\* the widths of the header's numeric fields: char mode[8] ... char mtime[12]
FieldWidths == {8, 12}

\* 8^n
RECURSIVE Pow8(_)
Pow8(n) == IF n = 0 THEN 1 ELSE 8 * Pow8(n - 1)

MaxSmallValue == 9

\* the values handed to putOctal: small ones, both sides of every digit-count
\* boundary up to 8^10, and negative ones
OctalValues ==
    (0..MaxSmallValue)
    \cup UNION {{Pow8(n) - 1, Pow8(n), Pow8(n) + 1} : n \in 1..10}
    \cup {2147483647, -1, -2, -8, -4096}

\* a field as memset left it, and a field holding other bytes
FieldFills == {NUL, 255}

OctalIdle ==
    /\ octLen = 0
    /\ octValue = 0
    /\ octField = << >>
    /\ octBefore = << >>
    /\ octRet = FALSE
    /\ octGot = 0

WantIdle ==
    /\ wfName = << >>
    /\ wfTable = << >>
    /\ wfRet = FALSE

\* tar_main not running
ProgIdle ==
    /\ listFlag = FALSE /\ extractFlag = FALSE /\ createFlag = FALSE
    /\ tostdoutFlag = FALSE
    /\ inHeader = FALSE /\ badHeader = FALSE /\ errorFlag = FALSE
    /\ skipFileFlag = FALSE /\ warnedRoot = FALSE /\ eofFlag = FALSE
    /\ dataCc = 0 /\ outFd = -1 /\ outName = -1
    /\ mode = 0 /\ uid = 0 /\ gid = 0 /\ mtime = 0
    /\ tarName = "NULL" /\ tarFd = -1 /\ tarDev = 0 /\ tarInode = 0
    /\ argv = << >>
    /\ buf = << >> /\ cpOff = 0 /\ inCc = 0 /\ nTarReads = 0
    /\ frames = << >>
    /\ srcFs = << >> /\ tarFile = << >> /\ tarPos = 0
    /\ tarEnv = << >> /\ nTarWrites = 0 /\ srcOpen = {}
    /\ outFs = << >> /\ outEnv = << >>
    /\ openFds = {} /\ closedFds = << >> /\ fdFile = << >> /\ nOutWrites = 0
    /\ stdout = << >> /\ stderr = << >>
    /\ exitCode = -1 /\ thenRead = "none" /\ hist = << >>

OctalInit ==
    /\ octLen \in FieldWidths
    /\ octValue \in OctalValues
    /\ \E b \in FieldFills : octField = Fill(octLen, b)
    /\ octBefore = octField
    /\ octRet = FALSE
    /\ octGot = 0
    /\ pc = "put"
    /\ WantIdle
    /\ ProgIdle

\* putOctal (field, len, value)
OctalPut ==
    /\ pc = "put"
    /\ pc' = "get"
    /\ LET r == putOctal(octField, octLen, octValue)
       IN /\ octRet' = r.ok
          /\ octField' = r.field
    /\ UNCHANGED <<octLen, octValue, octBefore, octGot, wfVars, progVars>>

\* getOctal (field, len)
OctalGet ==
    /\ pc = "get"
    /\ pc' = "done"
    /\ octGot' = getOctal(octField, octLen)
    /\ UNCHANGED <<octLen, octValue, octField, octBefore, octRet, wfVars, progVars>>

OctalNext == OctalPut \/ OctalGet

SpecOctal == OctalInit /\ [][OctalNext]_vars

----------------------------------------------------------------------------
(* The filter alone *)

MaxNameLen == 3
MaxTableLen == 2

\* 'a', 'b' and '/'
NameBytes == {97, 98, SLASH}

\* every string over bytes of at most n bytes
RECURSIVE Strings(_, _)
Strings(bytes, n) ==
    IF n = 0 THEN {<< >>}
    ELSE LET shorter == Strings(bytes, n - 1)
         IN shorter \cup {Append(s, b) : s \in shorter, b \in bytes}

\* "a", "ab", "a/b", "b/", ""
WantPrefixes == {<<97>>, <<97, 98>>, <<97, SLASH, 98>>, <<98, SLASH>>, << >>}

RECURSIVE Tables(_, _)
Tables(S, n) ==
    IF n = 0 THEN {<< >>}
    ELSE LET shorter == Tables(S, n - 1)
         IN shorter \cup {Append(t, p) : t \in shorter, p \in S}

WantInit ==
    /\ wfName \in Strings(NameBytes, MaxNameLen)
    /\ wfTable \in Tables(WantPrefixes, MaxTableLen)
    /\ wfRet = FALSE
    /\ pc = "call"
    /\ OctalIdle
    /\ ProgIdle

WantCall ==
    /\ pc = "call"
    /\ pc' = "done"
    /\ wfRet' = wantFileName(wfName, Len(wfTable), wfTable)
    /\ UNCHANGED <<wfName, wfTable, octVars, progVars>>

WantNext == WantCall

SpecWant == WantInit /\ [][WantNext]_vars

----------------------------------------------------------------------------
(* The runs of tar_main that are examined *)

\* the names used: "a", "b", "d", "d/a", "d/t", ".", ".."
Na == <<97>>
Nb == <<98>>
Nd == <<100>>
Nda == <<100, SLASH, 97>>
Ndt == <<100, SLASH, 116>>
Dot == <<46>>
DotDot == <<46, 46>>

\* a name of n bytes: "xxx...x"
LongName(n) == Fill(n, 120)

\* what stat reports: device 1, the inode, mode, owner 1000:100, the size
Stat(ino, m, size) ==
    [st_dev |-> 1, st_ino |-> ino, st_mode |-> m, st_uid |-> 1000,
     st_gid |-> 100, st_size |-> size, st_mtime |-> 946684800]

\* a regular file of permissions perm that holds data
RegFile(ino, perm, data) ==
    [statbuf |-> Stat(ino, S_IFREG + perm, Len(data)), data |-> data,
     entries |-> << >>, symlink |-> FALSE, openFails |-> FALSE, readErrAt |-> -1]

\* a directory whose readdir gives ".", ".." and names
Directory(ino, perm, names) ==
    [statbuf |-> Stat(ino, S_IFDIR + perm, 4096), data |-> << >>,
     entries |-> <<Dot, DotDot>> \o names, symlink |-> FALSE,
     openFails |-> FALSE, readErrAt |-> -1]

\* a fifo
Fifo(ino, perm) ==
    [statbuf |-> Stat(ino, S_IFIFO + perm, 0), data |-> << >>,
     entries |-> << >>, symlink |-> FALSE, openFails |-> FALSE, readErrAt |-> -1]

\* "hi\n", and n bytes b
Hi == <<104, 105, 10>>
Bytes(n, b) == Fill(n, b)

\* nothing goes wrong with the archive; it is inode 99 of device 1
TarFine ==
    [openFails |-> FALSE, fstatFails |-> FALSE, failWrite |-> -1,
     dev |-> 1, ino |-> 99, readErrAt |-> -1]

\* nothing goes wrong while extracting
OutFine == [fail |-> {}, failWrite |-> -1]

\* more names: "c", "e", "f", "g", "t"
Nc == <<99>>
Ne == <<101>>
Nf == <<102>>
Ng == <<103>>
Nt == <<116>>

\* the trees archived, each with the names given on the command line
SourceTrees ==
    { \* one small file
      [argv |-> <<Na>>, fs |-> (Na :> RegFile(11, 420, Hi))],
      \* a directory with a file of one block and one byte, and an empty file
      [argv |-> <<Nd, Nb>>,
       fs |-> (Nd :> Directory(10, 493, <<Na>>)
               @@ Nda :> RegFile(11, 384, Bytes(TAR_BLOCK_SIZE + 1, 65))
               @@ Nb :> RegFile(12, 292, << >>))],
      \* a file of one NUL byte, then another file
      [argv |-> <<Na, Nb>>,
       fs |-> (Na :> RegFile(11, 420, <<NUL>>) @@ Nb :> RegFile(12, 420, Hi))],
      \* no names at all
      [argv |-> << >>, fs |-> (Na :> RegFile(11, 420, Hi))],
      \* a file that only its owner may read, then a file of one block and
      \* two bytes, "a" and a NUL
      [argv |-> <<Na, Nb>>,
       fs |-> (Na :> RegFile(11, 384, Hi)
               @@ Nb :> RegFile(12, 420, Bytes(TAR_BLOCK_SIZE, 66) \o <<97, NUL>>))],
      \* a file that shrank after stat saw 600 bytes, and one that grew after
      \* stat saw 2
      [argv |-> <<Na, Nb>>,
       fs |-> (Na :> [RegFile(11, 420, Hi) EXCEPT !.statbuf.st_size = 600]
               @@ Nb :> [RegFile(12, 420, Hi) EXCEPT !.statbuf.st_size = 2])],
      \* a name of 100 bytes, a fifo, a name that does not exist, a file that
      \* cannot be opened, a file
      [argv |-> <<LongName(TAR_NAME_SIZE), Nb, Nc, Ne, Na>>,
       fs |-> (LongName(TAR_NAME_SIZE) :> RegFile(13, 420, Hi)
               @@ Nb :> Fifo(12, 420)
               @@ Ne :> [RegFile(14, 420, Hi) EXCEPT !.openFails = TRUE]
               @@ Na :> RegFile(11, 420, Hi))],
      \* a file, a file whose first read fails, a file
      [argv |-> <<Na, Nf, Nb>>,
       fs |-> (Na :> RegFile(11, 420, Hi)
               @@ Nf :> [RegFile(15, 420, Hi) EXCEPT !.readErrAt = 0]
               @@ Nb :> RegFile(12, 420, Hi))],
      \* the archive itself among the names, and a directory that cannot be read
      [argv |-> <<Ng, Nd, Na>>,
       fs |-> (Ng :> RegFile(99, 420, << >>)
               @@ Nd :> [Directory(10, 493, <<Na>>) EXCEPT !.openFails = TRUE]
               @@ Na :> RegFile(11, 420, Hi))],
      \* a directory that holds the archive, and a file after it
      [argv |-> <<Nd>>,
       fs |-> (Nd :> Directory(10, 493, <<Nt, Na>>)
               @@ Ndt :> RegFile(99, 420, Bytes(TAR_BLOCK_SIZE, 67))
               @@ Nda :> RegFile(11, 420, Hi))],
      \* an empty directory with a name of 99 bytes, and a file
      [argv |-> <<LongName(TAR_NAME_SIZE - 1), Na>>,
       fs |-> (LongName(TAR_NAME_SIZE - 1) :> Directory(16, 493, << >>)
               @@ Na :> RegFile(11, 420, Hi))],
      \* a file whose owner is user 8^8, and a file last modified one second
      \* before 1970
      [argv |-> <<Nc, Ne>>,
       fs |-> (Nc :> [RegFile(17, 420, Hi)
                        EXCEPT !.statbuf.st_uid = Pow8(FieldSize("uid"))]
               @@ Ne :> [RegFile(18, 420, Hi) EXCEPT !.statbuf.st_mtime = -1])]
    }

\* what goes wrong with the archive
TarEnvs ==
    { TarFine,
      [TarFine EXCEPT !.openFails = TRUE],
      [TarFine EXCEPT !.fstatFails = TRUE],
      \* the write of the first data block fails
      [TarFine EXCEPT !.failWrite = 1] }

\* the runs "tar -c": every tree with an archive that works, and the first
\* two trees with one that does not, or written to standard output
CreateRuns ==
    {[tree |-> t, env |-> TarFine, tarName |-> "t.tar"] : t \in SourceTrees}
    \cup {[tree |-> t, env |-> e, tarName |-> "t.tar"] :
             t \in {u \in SourceTrees : u.argv \in {<<Na>>, <<Nd, Nb>>}},
             e \in TarEnvs}
    \cup {[tree |-> t, env |-> TarFine, tarName |-> "-"] :
             t \in {u \in SourceTrees : u.argv = <<Nd, Nb>>}}

\* nothing has happened yet
NoHistory ==
    [saved |-> << >>, tarOpened |-> FALSE, decoded |-> << >>,
     first |-> [argv |-> << >>, errorFlag |-> FALSE, stderr |-> << >>,
                exitCode |-> -1,
                srcOpen |-> {}, closedFds |-> << >>]]

\* the state at line 259 of a run "tar -c": the options are parsed
CreateInit ==
    /\ pc = "main"
    /\ OctalIdle /\ WantIdle
    /\ listFlag = FALSE /\ extractFlag = FALSE /\ createFlag = TRUE
    /\ tostdoutFlag = FALSE
    /\ inHeader = FALSE /\ badHeader = FALSE /\ errorFlag = FALSE
    /\ skipFileFlag = FALSE /\ warnedRoot = FALSE /\ eofFlag = FALSE
    /\ dataCc = 0 /\ outFd = -1 /\ outName = -1
    /\ mode = 0 /\ uid = 0 /\ gid = 0 /\ mtime = 0
    /\ tarFd = -1 /\ tarDev = 0 /\ tarInode = 0
    /\ \E run \in CreateRuns :
          /\ argv = run.tree.argv /\ srcFs = run.tree.fs
          /\ tarEnv = run.env /\ tarName = run.tarName
    /\ buf = << >> /\ cpOff = 0 /\ inCc = 0 /\ nTarReads = 0
    /\ frames = << >>
    /\ tarFile = << >> /\ tarPos = 0
    /\ nTarWrites = 0 /\ srcOpen = {}
    /\ outFs = << >> /\ outEnv = OutFine
    /\ openFds = StdFds /\ closedFds = << >> /\ fdFile = << >> /\ nOutWrites = 0
    /\ stdout = << >> /\ stderr = << >>
    /\ exitCode = -1 /\ thenRead = "none"
    /\ hist = NoHistory

\* a header, or data, as the blocks they take in an archive
Blocks(bytes) ==
    bytes \o Fill((TAR_BLOCK_SIZE - (Len(bytes) % TAR_BLOCK_SIZE)) % TAR_BLOCK_SIZE, NUL)

\* the blocks of a regular file in an archive
Entry(fileName, perm, data) ==
    Blocks(HeaderBlock(fileName, Stat(11, perm, Len(data)))) \o Blocks(data)

\* the header block of a link: the type flag and the link name are set
LinkEntry(fileName, flag, linkName) ==
    Blocks(Store(Store(HeaderBlock(fileName, Stat(11, 511, 0)),
                       FieldOffset("typeFlag"), <<flag>>),
                 FieldOffset("linkName"), linkName))

\* a block of zeroes
EndBlock == Fill(TAR_BLOCK_SIZE, NUL)

\* a block whose name is empty and that is not empty
JunkBlock == Store(EndBlock, FieldOffset("linkName"), <<1>>)

\* an archive of one file
SmallArchive == Entry(Na, 420, Hi) \o EndBlock

\* the lengths SmallArchive is cut to: nothing, in the header, after the
\* header, in the data, in the padding, before the end block, in the end block
\* and whole
CutLengths ==
    {0, 100, TAR_BLOCK_SIZE, TAR_BLOCK_SIZE + 1, TAR_BLOCK_SIZE + 100,
     2 * TAR_BLOCK_SIZE, 2 * TAR_BLOCK_SIZE + 300, 3 * TAR_BLOCK_SIZE}

\* an archive whose end block starts where a read of BUF_SIZE bytes ends, cut
\* in the end block
CutAtBuffer ==
    Entry(Na, 420, Bytes(BUF_SIZE - TAR_BLOCK_SIZE, 65)) \o Fill(300, NUL)

\* a block that is no end of the archive, a file, the end, and more after it
PastTheEnd ==
    JunkBlock \o Entry(Na, 420, Hi) \o EndBlock \o Entry(Nb, 420, Hi) \o EndBlock

\* a hard link to a file that is not there, a symbolic link, two files
WithLinks ==
    LinkEntry(Nc, TAR_TYPE_HARD_LINK, Ng) \o LinkEntry(Ne, TAR_TYPE_SOFT_LINK, Na)
        \o Entry(Na, 420, Hi) \o Entry(Nb, 384, Bytes(TAR_BLOCK_SIZE + 1, 66))
        \o EndBlock

\* the blocks of an entry as a tar writes them that keeps the file type in
\* the mode field: m is the whole st_mode, flag the type flag
ForeignEntry(fileName, m, flag, data) ==
    Blocks(Store(Store(HeaderBlock(fileName, Stat(11, 0, Len(data))),
                       FieldOffset("mode"),
                       putOctal(Fill(FieldSize("mode"), NUL), FieldSize("mode"),
                                m).field),
                 FieldOffset("typeFlag"), <<flag>>))
        \o Blocks(data)

\* a block that is no header: a name, and no digit in any numeric field
BadBlock == Store(EndBlock, 0, <<120>>)

\* a regular file, a regular file of a block and a byte, a fifo, a regular
\* file, all with the file type in the mode field
Foreign ==
    ForeignEntry(Na, S_IFREG + 420, TAR_TYPE_REGULAR, Hi)
        \o ForeignEntry(Nb, S_IFREG + 384, TAR_TYPE_REGULAR,
                        Bytes(TAR_BLOCK_SIZE + 1, 66))
        \o ForeignEntry(Nf, S_IFIFO + 420, TAR_TYPE_REGULAR, << >>)
        \o ForeignEntry(Nc, S_IFREG + 420, TAR_TYPE_REGULAR, Hi)
        \o EndBlock

\* a bad block, "/a", a bad block, "//b" and the end
Warnings ==
    BadBlock \o Entry(<<SLASH>> \o Na, 420, Hi) \o BadBlock
        \o Entry(<<SLASH, SLASH>> \o Nb, 420, Hi) \o EndBlock

\* a file, then names that end with a slash: a hard link to the file, a
\* symbolic link, a regular file with data, a plain directory
SlashNames ==
    Entry(Na, 420, Hi)
        \o LinkEntry(Nd \o <<SLASH>>, TAR_TYPE_HARD_LINK, Na)
        \o LinkEntry(Ne \o <<SLASH>>, TAR_TYPE_SOFT_LINK, Na)
        \o ForeignEntry(Nf \o <<SLASH>>, S_IFREG + 420, TAR_TYPE_REGULAR, Hi)
        \o Entry(Ng \o <<SLASH>>, 493, << >>)
        \o EndBlock

\* a file whose header has letters for its time and for its checksum
BadTime ==
    Store(Store(Entry(Na, 420, Hi), FieldOffset("mtime"),
                Fill(FieldSize("mtime"), 120)),
          FieldOffset("checkSum"), Fill(FieldSize("checkSum"), 120))
        \o EndBlock

\* one run "tar -x" or "tar -t" on the file tar with the names given
ReadRun(tar, extract, names, env, out, tostdout) ==
    [tar |-> tar, extract |-> extract, argv |-> names, env |-> env, out |-> out,
     tostdout |-> tostdout]

\* the runs "tar -x" and "tar -t" on archives that tar -c did not write
ReadRuns ==
    {ReadRun(SubSeq(SmallArchive, 1, n), x, << >>, TarFine, OutFine, FALSE) :
        n \in CutLengths, x \in BOOLEAN}
    \cup {ReadRun(t, x, << >>, TarFine, OutFine, FALSE) :
             t \in {CutAtBuffer, PastTheEnd, Foreign, Warnings, SlashNames,
                    BadTime},
             x \in BOOLEAN}
    \cup {ReadRun(t, TRUE, a, TarFine, o, FALSE) :
             t \in {WithLinks, Foreign},
             a \in {<< >>, <<Nb>>},
             o \in {OutFine, [OutFine EXCEPT !.fail = {Na, Ne}],
                    [OutFine EXCEPT !.failWrite = 1]}}
    \cup {ReadRun(SmallArchive, TRUE, << >>, e, OutFine, FALSE) :
             e \in {[TarFine EXCEPT !.openFails = TRUE],
                    [TarFine EXCEPT !.readErrAt = 0]}}
    \* "tar -xO": the first write to standard output fails, or none
    \cup {ReadRun(Foreign, TRUE, << >>, TarFine, o, TRUE) :
             o \in {OutFine, [OutFine EXCEPT !.failWrite = 0]}}

\* the state at line 259 of a run "tar -x" or "tar -t" on one of those
ReadInit ==
    /\ pc = "main"
    /\ OctalIdle /\ WantIdle
    /\ createFlag = FALSE
    /\ inHeader = FALSE /\ badHeader = FALSE /\ errorFlag = FALSE
    /\ skipFileFlag = FALSE /\ warnedRoot = FALSE /\ eofFlag = FALSE
    /\ dataCc = 0 /\ outFd = 0 /\ outName = -1
    /\ mode = 0 /\ uid = 0 /\ gid = 0 /\ mtime = 0
    /\ tarName = "t.tar" /\ tarFd = -1 /\ tarDev = 0 /\ tarInode = 0
    /\ \E run \in ReadRuns :
          /\ tarFile = run.tar /\ argv = run.argv
          /\ extractFlag = run.extract /\ listFlag = ~run.extract
          /\ tarEnv = run.env /\ outEnv = run.out
          /\ tostdoutFlag = run.tostdout
    /\ \E b \in StaleBytes : buf = Fill(BUF_SIZE, b)
    /\ cpOff = 0 /\ inCc = 0 /\ nTarReads = 0
    /\ frames = << >> /\ srcFs = << >>
    /\ tarPos = 0 /\ nTarWrites = 0 /\ srcOpen = {}
    /\ outFs = << >>
    /\ openFds = StdFds /\ closedFds = << >> /\ fdFile = << >> /\ nOutWrites = 0
    /\ stdout = << >> /\ stderr = << >>
    /\ exitCode = -1 /\ thenRead = "none"
    /\ hist = NoHistory

Init == CreateInit \/ ReadInit

Next ==
    \/ WriteTarFileOpen
    \/ SaveFile
    \/ LoopEnd
    \/ WriteTarFileEnd
    \/ TarExit
    \/ SecondRun
    \/ ReadTarFileOpen
    \/ ReadFill
    \/ ReadHeader
    \/ ReadData
    \/ ReadTarFileDone

Spec == Init /\ [][Next]_vars

----------------------------------------------------------------------------
(* Properties of the codec and of the filter *)

\* how many octal digits "%lo" prints for value
DigitsNeeded(value) ==
    IF value < 0 THEN ULongDigits ELSE Len(OctalDigits(value))

\* C7: a value putOctal accepts at a header field width is what getOctal reads
\* back from the field; a value that needs more digits than the field has bytes
\* is refused (FALSE) and the field is left as it was.
C7_OctalRoundTrip ==
    pc = "done" /\ octLen \in FieldWidths =>
        /\ octRet = (DigitsNeeded(octValue) <= octLen)
        /\ octRet => octGot = octValue
        /\ ~octRet => octField = octBefore

\* a value of exactly 8 digits went through the 8-byte field
C7_Witness ==
    /\ pc = "done" /\ octLen = 8 /\ octValue = Pow8(7) + 1
    /\ octRet /\ octGot = octValue

\* the selection rule as the specification words it
Matches(name, prefixes) ==
    \/ prefixes = << >>
    \/ \E k \in 1..Len(prefixes) :
          LET p == prefixes[k]
          IN /\ Len(p) <= Len(name)
             /\ \A i \in 1..Len(p) : name[i] = p[i]
             /\ (Len(p) = Len(name) \/ name[Len(p) + 1] = SLASH)

\* C8: wantFileName is TRUE for every name when the table is empty, and
\* otherwise exactly when some entry is a prefix of the name that ends where
\* the name ends or where the name has a '/'; so "a/b" matches {"a"}, "ab"
\* does not match {"a"}, and "a" does not match {"a/b"}.
C8_SelectionFilter ==
    pc = "done" =>
        /\ wfRet = Matches(wfName, wfTable)
        /\ (wfName = <<97, SLASH, 98>> /\ wfTable = << <<97>> >> => wfRet)
        /\ (wfName = <<97, 98>> /\ wfTable = << <<97>> >> => ~wfRet)
        /\ (wfName = <<97>> /\ wfTable = << <<97, SLASH, 98>> >> => ~wfRet)

\* "a/b" was matched against {"ab", "a"} and selected
C8_Witness ==
    /\ pc = "done"
    /\ wfName = <<97, SLASH, 98>>
    /\ wfTable = << <<97, 98>>, <<97>> >>
    /\ wfRet

----------------------------------------------------------------------------
(* Properties of the runs *)

\* p is a prefix of n
IsPrefix(p, n) == Len(p) <= Len(n) /\ SubSeq(n, 1, Len(p)) = p

\* the names the first run was given
FirstArgv == IF createFlag THEN argv ELSE hist.first.argv

\* n is one of the names given to "tar -c", or lies below one of them
UnderArgument(n) ==
    \E k \in 1..Len(FirstArgv) :
        FirstArgv[k] = n \/ IsPrefix(FirstArgv[k] \o <<SLASH>>, n)

\* the tree archived holds regular files and directories only, every name
\* fits the header (with the slash added to a directory's), no file changes
\* while it is read, and no system call fails, while archiving or extracting
PlainTree ==
    /\ tarEnv = TarFine /\ outEnv = OutFine
    /\ FirstArgv # << >>
    /\ \A k \in 1..Len(FirstArgv) : FirstArgv[k] \in DOMAIN srcFs
    /\ \A n \in DOMAIN srcFs :
         /\ S_ISREG(srcFs[n].statbuf.st_mode) \/ S_ISDIR(srcFs[n].statbuf.st_mode)
         /\ ~srcFs[n].openFails /\ srcFs[n].readErrAt = -1 /\ ~srcFs[n].symlink
         /\ S_ISREG(srcFs[n].statbuf.st_mode)
                => srcFs[n].statbuf.st_size = Len(srcFs[n].data)
         /\ Len(n) + 1 < TAR_NAME_SIZE
         /\ srcFs[n].statbuf.st_ino # tarEnv.ino
         /\ UnderArgument(n)

\* C1: for a tree of regular files and directories whose names fit the header,
\* and with no I/O error, "tar -c" and then "tar -x" with no names recreate
\* exactly the paths of the tree, every directory as a directory and every
\* regular file with its bytes and with the permission bits st_mode & 0777.
C1_RoundTrip ==
    (pc = "exited" /\ thenRead = "x" /\ PlainTree) =>
        /\ DOMAIN outFs = DOMAIN srcFs
        /\ \A n \in DOMAIN srcFs :
             IF S_ISDIR(srcFs[n].statbuf.st_mode)
             THEN outFs[n].kind = "dir"
             ELSE /\ outFs[n].kind = "file"
                  /\ outFs[n].data = srcFs[n].data
                  /\ outFs[n].perm = srcFs[n].statbuf.st_mode % 512

\* no write to the archive has failed: the failing call, if there is one, has
\* not been made
NoWriteFailed == tarEnv.failWrite = -1 \/ tarEnv.failWrite >= nTarWrites

\* ceil (n / TAR_BLOCK_SIZE) * TAR_BLOCK_SIZE
RoundedUp(n) == ((n + TAR_BLOCK_SIZE - 1) \div TAR_BLOCK_SIZE) * TAR_BLOCK_SIZE

\* the bytes of the file of the saved entry sv that fit the size its header
\* commits to, then zeroes up to the block boundary
DataRegion(sv) ==
    SubSeq(sv.data, 1, Min(sv.statbuf.st_size, Len(sv.data)))
        \o Fill(RoundedUp(sv.statbuf.st_size)
                    - Min(sv.statbuf.st_size, Len(sv.data)), NUL)

\* C2: for every regular file archived with stat size S, with no read error and
\* no write error, the header is followed by exactly ceil(S/512)*512 bytes: the
\* file's bytes (S of them at most), then zeroes, also where the file gave
\* fewer than S bytes.
C2_WriterAlignment ==
    \A k \in 1..Len(hist.saved) :
        (~hist.saved[k].isDir /\ ~hist.saved[k].readError /\ NoWriteFailed) =>
            /\ hist.saved[k].end - (hist.saved[k].off + TAR_BLOCK_SIZE)
                   = RoundedUp(hist.saved[k].statbuf.st_size)
            /\ hist.saved[k].end <= Len(tarFile)
            /\ SubSeq(tarFile, hist.saved[k].off + TAR_BLOCK_SIZE + 1,
                      hist.saved[k].end) = DataRegion(hist.saved[k])

\* a file that shrank and a file that grew have been archived, as well as one
\* whose size is no multiple of the block size
C2_Witness ==
    /\ pc = "exited" /\ createFlag /\ NoWriteFailed
    /\ \E k \in 1..Len(hist.saved) :
          /\ ~hist.saved[k].isDir
          /\ hist.saved[k].statbuf.st_size > Len(hist.saved[k].data)
          /\ hist.saved[k].statbuf.st_size % TAR_BLOCK_SIZE # 0
    /\ \E k \in 1..Len(hist.saved) :
          /\ ~hist.saved[k].isDir
          /\ hist.saved[k].statbuf.st_size < Len(hist.saved[k].data)

\* the reader has decoded, as a header, a block of zeroes that the input
\* supplied in full
SawEndBlock ==
    \E k \in 1..Len(hist.decoded) :
        hist.decoded[k].have = TAR_BLOCK_SIZE /\ hist.decoded[k].block = EndBlock

\* C3: a reader run whose input ends before a block of zeroes was decoded as a
\* header, wherever the input ends, ends with errorFlag set: it is not taken
\* for an archive that was read successfully.
C3_Truncation ==
    (pc = "exited" /\ ~createFlag /\ ~SawEndBlock) => (errorFlag /\ exitCode = 0)

\* what the reader leaves alone once it has seen the end of the archive
AfterEof ==
    UNCHANGED <<cpOff, inCc, tarPos, buf, nTarReads, hdrVars, mode, outFs, fdFile,
                nOutWrites, stdout, stderr, errorFlag, hist>>

\* the end of the archive was seen exactly if a block of zeroes was decoded as
\* a header, and such a block is the last one decoded
EofIsEndBlock ==
    /\ eofFlag = (\E k \in 1..Len(hist.decoded) : hist.decoded[k].block = EndBlock)
    /\ \A k \in 1..Len(hist.decoded) :
           hist.decoded[k].block = EndBlock => k = Len(hist.decoded)

\* C4: the reader reaches the end of the archive exactly when a block decoded
\* as a header is 512 zeroes; it stops at the first such block, and decodes or
\* acts upon no block after it; a block whose name is empty and that holds a
\* byte that is not zero is no end of the archive.
C4_EndOfArchive ==
    /\ [](~createFlag /\ pc \in {"read", "done", "exit", "exited"} => EofIsEndBlock)
    /\ [][~createFlag /\ eofFlag => AfterEof]_vars

\* the end of the archive was seen after a block whose name is empty and that
\* is not empty was passed, and with blocks of the archive left unread
C4_Witness ==
    /\ ~createFlag /\ eofFlag /\ pc = "exited"
    /\ \E k \in 1..Len(hist.decoded) :
          hist.decoded[k].block[1] = NUL /\ hist.decoded[k].block # EndBlock
    /\ tarPos - inCc < Len(tarFile)

\* where the last archived entry ends in the archive
EntriesEnd ==
    IF hist.saved = << >> THEN 0 ELSE hist.saved[Len(hist.saved)].end

\* C5: a writer run that opened the archive and in which no write to it failed
\* ends with one block of zeroes as the last block of the archive, also when an
\* entry failed (a read error, an unreadable or unsupported entry, no names).
C5_EndMarker ==
    (pc = "exited" /\ createFlag /\ hist.tarOpened /\ NoWriteFailed) =>
        /\ Len(tarFile) = EntriesEnd + TAR_BLOCK_SIZE
        /\ SubSeq(tarFile, EntriesEnd + 1, Len(tarFile)) = EndBlock

\* the header block of the k-th archived entry
HeaderOf(k) ==
    SubSeq(tarFile, hist.saved[k].off + 1, hist.saved[k].off + TAR_BLOCK_SIZE)

\* the sum of the bytes of block with blanks for its checksum field
SumWithBlanks(block) ==
    ByteSum(SubSeq(block, 1, FieldOffset("checkSum"))
                \o Fill(FieldSize("checkSum"), SPACE)
                \o SubSeq(block, FieldOffset("checkSum") + FieldSize("checkSum") + 1,
                          TAR_BLOCK_SIZE),
            TAR_BLOCK_SIZE)

\* C6: the checksum field of every header block the writer emits decodes
\* (getOctal) to the sum of the 512 bytes of the block, taken as unsigned, with
\* the 8 bytes of the checksum field counted as blanks.
C6_Checksum ==
    \A k \in 1..Len(hist.saved) :
        (tarEnv.failWrite # hist.saved[k].calls
             /\ Len(tarFile) >= hist.saved[k].off + TAR_BLOCK_SIZE) =>
            getOctal(Field(HeaderOf(k), "checkSum"), FieldSize("checkSum"))
                = SumWithBlanks(HeaderOf(k))

\* the headers of a directory and of a file in it have been emitted
C6_Witness ==
    /\ pc = "exited" /\ createFlag /\ Len(tarFile) > 3 * TAR_BLOCK_SIZE
    /\ \E k \in 1..Len(hist.saved) : hist.saved[k].isDir
    /\ \E k \in 1..Len(hist.saved) : ~hist.saved[k].isDir

\* C9: "tar -t" with no names prints one line per archived entry, in the order
\* of the archive, and nothing else: for an archive the writer made from
\* regular files and directories, the names listed are the names of the headers
\* the writer emitted, whatever the files hold.
C9_Listing ==
    (pc = "exited" /\ thenRead = "t" /\ PlainTree) =>
        [k \in 1..Len(stdout) |-> stdout[k].line]
            = [k \in 1..Len(hist.saved) |-> hist.saved[k].headerName]

\* the diagnostics of a failure that concerns one entry
EntryFailures ==
    {"perror outName", "File name is too long", "perror fileName",
     "not a directory or regular file", "Cannot read directory"}

\* C10: a run in which an entry failed (a link, a symbolic link or a file that
\* cannot be created, a write of extracted data that fails, a name that is too
\* long, an entry that cannot be read or is of no supported type) ends with
\* errorFlag set and with failure as its outcome.
C10_ErrorAccumulation ==
    (pc = "exited" /\ \E i \in 1..Len(stderr) : stderr[i] \in EntryFailures) =>
        (errorFlag /\ exitCode = 0)

\* the name saveFile is about to be called with
NextName == Head(Head(frames).names)

\* saveFile is about to be called with the name of a file that has the device
\* and the inode of the archive
AtArchiveItself ==
    /\ pc = "save" /\ createFlag /\ ~errorFlag /\ Head(frames).names # << >>
    /\ Len(NextName) < TAR_NAME_SIZE
    /\ NextName \in DOMAIN srcFs
    /\ srcFs[NextName].statbuf.st_dev = tarEnv.dev
    /\ srcFs[NextName].statbuf.st_ino = tarEnv.ino

\* C11: when a path visited while archiving has the device and the inode of
\* the open archive, the writer emits no header and no data for it, leaves
\* errorFlag as it is, and goes on with the next entry of the loop it is in.
C11_SelfInclusion ==
    [][AtArchiveItself =>
           /\ tarFile' = tarFile /\ nTarWrites' = nTarWrites
           /\ hist'.saved = hist.saved
           /\ errorFlag' = errorFlag
           /\ pc' = "save"
           /\ frames' = <<[Head(frames) EXCEPT !.names = Tail(@)]>> \o Tail(frames)
      ]_vars

\* the archive was met in a directory and passed over, the file after it in
\* that directory was archived, and the run ended well
C11_Witness ==
    /\ pc = "exited" /\ createFlag /\ exitCode = 1
    /\ Ndt \in DOMAIN srcFs /\ srcFs[Ndt].statbuf.st_ino = tarEnv.ino
    /\ \E i \in 1..Len(stderr) : stderr[i] = "Skipping saving of archive file itself"
    /\ \E k \in 1..Len(hist.saved) : hist.saved[k].name = Nda
    /\ \A k \in 1..Len(hist.saved) : hist.saved[k].name # Ndt

\* the block hp, decoded as a header, is not the end of the archive and not a
\* bad header
GoodHeader(hp) ==
    /\ hp[1] # NUL
    /\ Decoded(hp).mode >= 0 /\ Decoded(hp).uid >= 0
    /\ Decoded(hp).gid >= 0 /\ Decoded(hp).size >= 0

\* the name of the entry of header hp, without the slashes it starts with
EntryName(hp) ==
    SubSeq(CString(hp, 0), LeadingSlashes(CString(hp, 0)) + 1, Len(CString(hp, 0)))

\* the header hp is that of a regular file (type flag '0' and a name that is
\* no directory's) or of another type with data, and its size is not 0
DataBearing(hp) ==
    /\ Decoded(hp).size > 0
    /\ Decoded(hp).typeFlag \notin {TAR_TYPE_HARD_LINK, TAR_TYPE_SOFT_LINK}
    /\ EntryName(hp) # << >> /\ EntryName(hp)[Len(EntryName(hp))] # SLASH
    /\ Decoded(hp).typeFlag = TAR_TYPE_REGULAR \/ HasData(Decoded(hp).mode)

\* the block the reader is about to decode as a header
BlockAtCp == SubSeq(buf, cpOff + 1, cpOff + TAR_BLOCK_SIZE)

\* the reader is about to decode a header
AtHeader == pc = "read" /\ ~createFlag /\ ~eofFlag /\ inCc > 0 /\ inHeader

\* the entry of the last header decoded is one the names given exclude
InExcluded ==
    /\ hist.decoded # << >>
    /\ GoodHeader(hist.decoded[Len(hist.decoded)].block)
    /\ ~Matches(EntryName(hist.decoded[Len(hist.decoded)].block), argv)

\* C12: when the names given exclude an entry that is a regular file (type
\* flag '0') or of another type with data, of size S > 0, the reader expects S
\* bytes of data, steps over them and their padding without writing them
\* anywhere, and the next block it decodes as a header is the one after them.
C12_SkippedKeepAlignment ==
    /\ [][(AtHeader /\ GoodHeader(BlockAtCp) /\ DataBearing(BlockAtCp)
                /\ ~Matches(EntryName(BlockAtCp), argv))
            => (~inHeader' /\ dataCc' = Decoded(BlockAtCp).size)]_vars
    /\ [][(pc = "read" /\ ~createFlag /\ ~inHeader /\ InExcluded)
            => (outFs' = outFs /\ stdout' = stdout)]_vars
    /\ [](\A k \in 1..(Len(hist.decoded) - 1) :
             (/\ GoodHeader(hist.decoded[k].block)
              /\ DataBearing(hist.decoded[k].block)
              /\ ~Matches(EntryName(hist.decoded[k].block), argv))
             => hist.decoded[k + 1].pos
                    = hist.decoded[k].pos + TAR_BLOCK_SIZE
                          + RoundedUp(Decoded(hist.decoded[k].block).size))

\* C13: for every entry of declared size S after whose header the reader
\* expects data, and however the reads of the archive cut the data, the
\* ceil(S/512) blocks after the header are taken for data and padding and the
\* next header is decoded from the block right after them; an entry of size 0
\* leaves the reader expecting a header, and the next block is decoded.
C13_ReaderAlignment ==
    /\ [][(AtHeader /\ GoodHeader(BlockAtCp))
            => IF Decoded(BlockAtCp).size = 0 THEN inHeader'
               ELSE (~inHeader' => dataCc' = Decoded(BlockAtCp).size)]_vars
    /\ [](~createFlag =>
             \A k \in 1..(Len(hist.decoded) - 1) :
                 hist.decoded[k + 1].pos
                     = hist.decoded[k].pos + TAR_BLOCK_SIZE
                           + RoundedUp(hist.decoded[k].data))

\* the data of an entry, no multiple of the block size, lay across two reads
\* of the archive, and the header after them was decoded
C13_Witness ==
    /\ ~createFlag
    /\ \E k \in 1..(Len(hist.decoded) - 1) :
          /\ hist.decoded[k].data % TAR_BLOCK_SIZE # 0
          /\ (hist.decoded[k].pos + TAR_BLOCK_SIZE) \div BUF_SIZE
                 # (hist.decoded[k].pos + TAR_BLOCK_SIZE
                        + RoundedUp(hist.decoded[k].data) - 1) \div BUF_SIZE
          /\ GoodHeader(hist.decoded[k + 1].block)

\* how many times the diagnostic msg was printed
Printed(msg) == Cardinality({i \in 1..Len(stderr) : stderr[i] = msg})

\* C14: over one run of the reader the warning for a bad header is printed
\* once at most, and so is the warning for an absolute path, however many bad
\* headers and absolute names the archive holds, and in whatever order.
C14_WarningsOnce ==
    ~createFlag =>
        /\ Printed("Bad tar header, skipping") <= 1
        /\ Printed("Absolute path detected, removing leading slashes") <= 1

\* a write to the archive has failed
WriteFailed == tarEnv.failWrite >= 0 /\ nTarWrites > tarEnv.failWrite

\* C15: a failed write to the archive sets errorFlag; once errorFlag is set no
\* byte is written to the archive any more and no further entry is visited,
\* by the loop over the names given or by a loop over a directory; and the
\* files and directories that were open are closed when the run ends.
C15_WriterAbort ==
    /\ [](createFlag /\ WriteFailed => errorFlag)
    /\ [][createFlag /\ errorFlag
            => (tarFile' = tarFile /\ hist'.saved = hist.saved)]_vars
    /\ [](createFlag /\ errorFlag /\ pc = "exited" => srcOpen = {})

\* some numeric field of the header hp does not decode
NumericFieldFails(hp) ==
    \/ Decoded(hp).mode < 0 \/ Decoded(hp).uid < 0 \/ Decoded(hp).gid < 0
    \/ Decoded(hp).size < 0 \/ Decoded(hp).mtime < 0 \/ Decoded(hp).checkSum < 0
    \/ Decoded(hp).major < 0 \/ Decoded(hp).minor < 0

\* C16: a header of which any numeric field (mode, uid, gid, size, mtime,
\* checksum, device major, device minor) does not decode as octal is a bad
\* header: its entry is not listed and not extracted, no data are expected
\* after it, and badHeader is raised.
C16_NumericValidation ==
    [][(AtHeader /\ BlockAtCp[1] # NUL /\ NumericFieldFails(BlockAtCp))
        => /\ badHeader'
           /\ inHeader'
           /\ stdout' = stdout /\ outFs' = outFs]_vars

\* the header hp is not a bad one and the name of its entry ends with a slash
SlashName(hp) ==
    /\ GoodHeader(hp)
    /\ EntryName(hp) # << >>
    /\ EntryName(hp)[Len(EntryName(hp))] = SLASH

\* C17: every entry whose name ends with '/' is handled as a directory,
\* whatever its type flag is, that of a hard link or of a symbolic link
\* included: when it is extracted its path is created, a directory, and in
\* every mode no data are expected after its header.
C17_DirectoryBySlash ==
    [][(AtHeader /\ SlashName(BlockAtCp))
        => /\ inHeader'
           /\ (extractFlag /\ Matches(EntryName(BlockAtCp), argv))
                  => /\ PathOf(EntryName(BlockAtCp)) \in DOMAIN outFs'
                     /\ outFs'[PathOf(EntryName(BlockAtCp))].kind = "dir"]_vars

\* the descriptors that are open beside the standard ones and the archive
OutputFds == openFds \ (StdFds \cup {tarFd})

\* C18: while files are extracted (not to standard output) one descriptor at
\* most is held for output; it is released, and outFd is -1, whenever the
\* reader expects a header, so after the data of an entry are complete and
\* after a write to it has failed; none is held when the run has ended; and
\* the reader closes no descriptor that it did not open (the archive, which
\* may be standard input, is left aside: the claim is about output).
C18_OutputDiscipline ==
    (~createFlag /\ extractFlag /\ ~tostdoutFlag
         /\ pc \in {"read", "done", "exit", "exited"}) =>
        /\ Cardinality(OutputFds) <= 1
        /\ (pc = "read" /\ inHeader) => (outFd = -1 /\ OutputFds = {})
        /\ pc \in {"exit", "exited"} => openFds \subseteq StdFds
        /\ \A i \in 1..Len(closedFds) : closedFds[i] \notin (StdFds \ {tarFd})

\* the reader is about to hand data of an entry to readData
AtData == pc = "read" /\ ~createFlag /\ ~eofFlag /\ inCc > 0 /\ ~inHeader

\* the write that readData is about to make is the one that fails
SinkFailsNow ==
    /\ AtData /\ extractFlag /\ ~skipFileFlag
    /\ nOutWrites = outEnv.failWrite

\* all of C19 but what becomes of the sink: the failing write and every later
\* step over the data of the entry add nothing to any file or to standard
\* output, the failure stops neither the loop nor sets errorFlag, and the
\* headers that follow are decoded at the block after the data and padding
SinkFailureRest ==
    /\ [][SinkFailsNow => /\ outFs' = outFs /\ stdout' = stdout
                          /\ skipFileFlag' /\ pc' = "read"
                          /\ errorFlag' = errorFlag
                          /\ dataCc' = dataCc - Min(inCc, dataCc)]_vars
    /\ [][(AtData /\ extractFlag /\ skipFileFlag) =>
              /\ outFs' = outFs /\ stdout' = stdout /\ pc' = "read"]_vars
    /\ []((~createFlag /\ extractFlag /\ outEnv.failWrite >= 0) =>
              \A k \in 1..(Len(hist.decoded) - 1) :
                  hist.decoded[k + 1].pos - hist.decoded[k].pos
                      = TAR_BLOCK_SIZE + RoundedUp(hist.decoded[k].data))

\* C19 as it is stated: when a write of an entry's data to the sink fails no
\* further byte of the entry is written, the sink is closed, the rest of the
\* data and the padding are consumed so that the next header is decoded at
\* its block, and the run continues.
C19_SinkClosedAlways ==
    /\ SinkFailureRest
    /\ [][SinkFailsNow => outFd \notin openFds']_vars

\* C19, amended: the same, but the sink is closed, and outFd set to -1, only
\* when it is a file opened for the entry; with extraction to standard output
\* the sink stays open and the entries that follow are written to it.
C19_SinkWriteFailure ==
    /\ SinkFailureRest
    /\ [][SinkFailsNow =>
              IF tostdoutFlag THEN openFds' = openFds /\ outFd' = outFd
              ELSE outFd \notin openFds' /\ outFd' = -1]_vars

\* a write to a file failed with data of the entry still to come, and after
\* it the run went on to write the data of a later entry and ended
C19_Witness ==
    /\ ~createFlag /\ extractFlag /\ ~tostdoutFlag /\ pc = "exited"
    /\ outEnv.failWrite >= 0 /\ nOutWrites > outEnv.failWrite + 1
    /\ \E k \in 1..Len(hist.decoded) : hist.decoded[k].data > TAR_BLOCK_SIZE

\* the header of the k-th archived entry was written to the archive
HeaderEmitted(k) ==
    /\ tarEnv.failWrite # hist.saved[k].calls
    /\ Len(tarFile) >= hist.saved[k].off + TAR_BLOCK_SIZE

\* the name that the header of the k-th archived entry holds
NameInHeader(k) == CString(HeaderOf(k), 0)

\* the j-th archived entry lies inside the directory that the k-th one is
InsideDirectory(j, k) ==
    /\ j # k
    /\ IsPrefix(hist.saved[k].name \o <<SLASH>>, hist.saved[j].name)

\* C20: every header the writer emits for a directory holds a name that ends
\* with '/' and a size field that decodes to 0, whatever size stat reports
\* for the directory, and it precedes in the archive the header of every
\* entry inside that directory.
C20_DirectoryHeaders ==
    createFlag =>
        \A k \in 1..Len(hist.saved) :
            (hist.saved[k].isDir /\ HeaderEmitted(k)) =>
                /\ NameInHeader(k) # << >>
                /\ NameInHeader(k)[Len(NameInHeader(k))] = SLASH
                /\ getOctal(Field(HeaderOf(k), "size"), FieldSize("size")) = 0
                /\ \A j \in 1..Len(hist.saved) :
                       InsideDirectory(j, k) =>
                           hist.saved[k].off < hist.saved[j].off

\* the name that saveFile, called with a name of srcFs, would archive it
\* under: the path, and for a directory the path and '/'
ArchivedName(name) ==
    IF S_ISDIR(srcFs[name].statbuf.st_mode) THEN name \o <<SLASH>> ELSE name

\* saveFile is about to be called with a path whose archived name and the
\* NUL after it do not fit the name field
AtNameTooLong ==
    /\ pc = "save" /\ createFlag /\ ~errorFlag /\ Head(frames).names # << >>
    /\ \/ Len(NextName) >= TAR_NAME_SIZE
       \/ /\ NextName \in DOMAIN srcFs
          /\ Len(ArchivedName(NextName)) >= TAR_NAME_SIZE

\* C21: every header block the writer emits, for a regular file and for a
\* directory, holds a name of at most 99 bytes, the archived name, with a NUL
\* after it inside the name field of 100 bytes, so that nothing of the name
\* is stored beyond the field; and a path whose archived name would not fit
\* is skipped with a diagnostic, no header being emitted for it.
C21_NameFieldBound ==
    /\ [](createFlag =>
             \A k \in 1..Len(hist.saved) :
                 HeaderEmitted(k) =>
                     /\ Len(hist.saved[k].headerName) < TAR_NAME_SIZE
                     /\ \E i \in 1..TAR_NAME_SIZE : HeaderOf(k)[i] = NUL
                     /\ NameInHeader(k) = hist.saved[k].headerName)
    /\ [][AtNameTooLong =>
             /\ tarFile' = tarFile /\ hist'.saved = hist.saved
             /\ stderr' = Append(stderr, "File name is too long")]_vars

\* what sprintf (" %0*lo") leaves for 8^n, where n is at least the width
\* asked for: a blank, the digit 1 and n digits 0
SprintfPow8(n) == <<SPACE, DIGIT0 + 1>> \o Fill(n, DIGIT0)

\* the size field of the header
SizeWidth == FieldSize("size")

\* C22 as it is stated: putOctal on a field of width w returns FALSE for every
\* value that needs more than w - 1 octal digits, and so for a size of 8^11
\* in the size field of 12 bytes.
C22_RefusesFullWidth ==
    (pc = "done" /\ octLen \in FieldWidths) =>
        /\ DigitsNeeded(octValue) > octLen - 1 => ~octRet
        /\ ~PutOctalString(Fill(SizeWidth, NUL), SizeWidth,
                           SprintfPow8(SizeWidth - 1)).ok

\* C22, amended: putOctal on a field of width w returns FALSE, and leaves the
\* field alone, exactly for the values that need more than w octal digits; a
\* value that needs w digits is stored as its w digits with no blank before
\* them and no NUL after them, and getOctal reads it back.  So a size of 8^11
\* (8 GiB) is encoded in the size field of 12 bytes, and one of 8^12 is not.
C22_OctalRangeLimit ==
    /\ (pc = "done" /\ octLen \in FieldWidths) =>
          /\ DigitsNeeded(octValue) > octLen => ~octRet /\ octField = octBefore
          /\ DigitsNeeded(octValue) = octLen =>
                /\ octRet /\ octGot = octValue
                /\ \A i \in 1..octLen : isOctal(octField[i])
          /\ DigitsNeeded(octValue) < octLen =>
                /\ octRet /\ octField[octLen] = NUL
    /\ PutOctalString(Fill(SizeWidth, NUL), SizeWidth,
                      SprintfPow8(SizeWidth - 1))
           = [ok |-> TRUE, field |-> Tail(SprintfPow8(SizeWidth - 1))]
    /\ ~PutOctalString(Fill(SizeWidth, NUL), SizeWidth,
                       SprintfPow8(SizeWidth)).ok

\* a value of as many digits as the field has bytes was stored in it
C22_Witness ==
    /\ pc = "done" /\ octLen \in FieldWidths
    /\ octValue = Pow8(octLen - 1) /\ octRet /\ octField[octLen] # NUL

\* the block hp is one that readHeader finds to be an invalid header: it does
\* not start with a NUL and its mode, uid, gid or size does not decode
InvalidHeader(hp) == hp[1] # NUL /\ ~GoodHeader(hp)

\* C23: when the reader, expecting a header, decodes an invalid one, it
\* consumes that block of 512 bytes and no more, goes on expecting a header,
\* creates and writes no file system object, leaves the count of data left
\* and the open output as they are, does not end the run, and decodes the
\* block that follows as a header.
C23_InvalidHeaderTransition ==
    /\ [][(AtHeader /\ InvalidHeader(BlockAtCp)) =>
              /\ cpOff' = cpOff + TAR_BLOCK_SIZE
              /\ inCc' = inCc - TAR_BLOCK_SIZE
              /\ inHeader'
              /\ outFs' = outFs /\ stdout' = stdout
              /\ dataCc' = dataCc
              /\ outFd' = outFd /\ openFds' = openFds
              /\ closedFds' = closedFds /\ fdFile' = fdFile
              /\ pc' = "read" /\ ~eofFlag' /\ errorFlag' = errorFlag]_vars
    /\ [](~createFlag =>
             \A k \in 1..(Len(hist.decoded) - 1) :
                 InvalidHeader(hist.decoded[k].block) =>
                     hist.decoded[k + 1].pos
                         = hist.decoded[k].pos + TAR_BLOCK_SIZE)

\* while files were extracted an invalid header was passed over and the
\* header in the block after it was decoded and its file created
C23_Witness ==
    /\ ~createFlag /\ extractFlag /\ outFs # << >>
    /\ \E k \in 1..(Len(hist.decoded) - 1) :
          /\ InvalidHeader(hist.decoded[k].block)
          /\ GoodHeader(hist.decoded[k + 1].block)
          /\ PathOf(EntryName(hist.decoded[k + 1].block)) \in DOMAIN outFs

\* what getOctal reads from field f of the header of the k-th archived entry
FieldValue(k, f) == getOctal(Field(HeaderOf(k), f), FieldSize(f))

\* C24: in every header the writer emits, whatever stat reported, the mode,
\* uid, gid, size and mtime fields decode with getOctal to the values the
\* writer meant to store (st_mode & 0777, st_uid, st_gid, st_size, st_mtime):
\* no header is emitted with a field that putOctal could not encode, so that
\* the reader finds no header of the writer to be a bad one.
C24_HeadersDecodable ==
    createFlag =>
        \A k \in 1..Len(hist.saved) :
            HeaderEmitted(k) =>
                /\ FieldValue(k, "mode") = hist.saved[k].statbuf.st_mode % 512
                /\ FieldValue(k, "uid") = hist.saved[k].statbuf.st_uid
                /\ FieldValue(k, "gid") = hist.saved[k].statbuf.st_gid
                /\ FieldValue(k, "size") = hist.saved[k].statbuf.st_size
                /\ FieldValue(k, "mtime") = hist.saved[k].statbuf.st_mtime
                /\ GoodHeader(HeaderOf(k))

\* the regular files among the sources that are open (directories being read
\* are open as well, and are not counted)
OpenSourceFiles ==
    {n \in srcOpen : n \in DOMAIN srcFs /\ S_ISREG(srcFs[n].statbuf.st_mode)}

\* C25: while an archive is created, to a named file or to standard output,
\* every source file that was opened is closed again before the writer goes
\* on to the next entry, whether its data were read to the end, read short or
\* not read for an error: between two entries and at the end of the run no
\* source file is open, and so never more than one.
C25_SourceDescriptors ==
    createFlag =>
        /\ OpenSourceFiles = {}
        /\ pc \in {"exit", "exited"} => srcOpen = {}

=============================================================================
